---- MODULE Spec2Model ----
(***************************************************************************)
(* A model of the paper extractor: the identifier resolver and the        *)
(* metadata resolver (metadata_extractor.py, help2.py), the orchestrator  *)
(* (paper_extractor.py) and the visual pipeline (visual_extractor.py,     *)
(* visual_extractor_simple.py).                                           *)
(*                                                                         *)
(* Python values are records tagged by type: None, str (a sequence of     *)
(* one-character strings), int, dict (a function on its keys) and list.   *)
(***************************************************************************)
EXTENDS Integers, Sequences, FiniteSets, TLC

VARIABLES
    \* get_pmcid_from_url
    link,       \* the argument
    pmcidOut,   \* the value returned
    idPc,       \* "start" before the call, "done" after it
    \* fetch_metadata_pmc
    pmcid,      \* the argument
    sumResp,    \* what the esummary request will answer
    efResp,     \* what the efetch request will answer
    metaPc,     \* the position in the function
    result,     \* the local result: the summary record of the identifier
    meta,       \* the local meta: the record under construction
    doi,        \* the local doi
    requests,   \* the remote requests issued so far, in order
    metaRet,    \* the value returned, NotYet before the return
    \* _should_skip_image
    fVariant,   \* "simple" (visual_extractor_simple) or "full" (visual_extractor)
    fDoc,       \* the parsed page
    fImg,       \* the argument img: an element of the page
    fUrl,       \* the argument img_url
    fSkip,      \* the value returned
    fPc,        \* "start" before the call, "done" after it
    \* the visual extractor (an object of either extractor class)
    variant,    \* "simple" (SimpleVisualExtractor) or "full" (VisualElementsExtractor)
    paperUrl,   \* self.paper_url (self.base_url in the full variant)
    pageResp,   \* what the page request will be answered with
    dlFail,     \* the image addresses whose download will fail
    soup,       \* the parsed page, None before the fetch or when it failed
    visPc,      \* where extract_visual_elements / run_extraction stands
    sel,        \* extract_figures: the selector pass
    idx,        \* the position in the list of elements being looped over
    acc,        \* the local list being built (figures, tables or images)
    extracted,  \* self.extracted_elements
    files,      \* the files under output_dir: path -> content
    downloads,  \* the calls of download_image so far: url and filename
    visRet,     \* the value returned, NotYet before the return
    \* paper_extractor
    argsUrl,    \* args.url
    mainPc,     \* where main stands
    metadata,   \* the metadata record, None before step 1 is done
    mainRet,    \* what main returned (True, False), Raised when an exception
                \* left it, NotYet before
    jsonFile,   \* the content of paper_data.json, None while it is not written
    exitStatus, \* the exit status of the process, None while it runs
    \* the batch loop of help2.py
    df,            \* the rows of df
    rowsRead,      \* the number of rows the loop has taken from df.iterrows()
    count,         \* count
    metadata_list, \* metadata_list
    record,        \* record, None between two rows
    batchPc        \* "loop" at the head of the loop, "fetching" during
                   \* fetch_metadata_pmc, "done" after the loop

idVars == <<link, pmcidOut, idPc>>
metaVars == <<pmcid, sumResp, efResp, metaPc, result, meta, doi, requests, metaRet>>

filterVars == <<fVariant, fDoc, fImg, fUrl, fSkip, fPc>>

visVars == <<variant, paperUrl, pageResp, dlFail, soup, visPc, sel, idx, acc,
             extracted, files, downloads, visRet>>

mainVars == <<argsUrl, mainPc, metadata, mainRet, jsonFile, exitStatus>>

batchVars == <<df, rowsRead, count, metadata_list, record, batchPc>>

vars == <<idVars, metaVars, filterVars, visVars, mainVars, batchVars>>

\* what the actions of one part leave alone
idFrame == <<metaVars, filterVars, visVars, mainVars, batchVars>>
metaFrame == <<idVars, filterVars, visVars, mainVars, batchVars>>
filterFrame == <<idVars, metaVars, visVars, mainVars, batchVars>>
visFrame == <<idVars, metaVars, filterVars, mainVars, batchVars>>
batchFrame == <<idVars, filterVars, visVars, mainVars>>

-----------------------------------------------------------------------------
(* Python values *)

None == [t |-> "none"]
Str(s) == [t |-> "str", s |-> s]
PyInt(n) == [t |-> "int", n |-> n]
Dict(d) == [t |-> "dict", d |-> d]
List(l) == [t |-> "list", l |-> l]

UpperChars == <<"A","B","C","D","E","F","G","H","I","J","K","L","M",
                "N","O","P","Q","R","S","T","U","V","W","X","Y","Z">>
LowerChars == <<"a","b","c","d","e","f","g","h","i","j","k","l","m",
                "n","o","p","q","r","s","t","u","v","w","x","y","z">>
Digits == {"0","1","2","3","4","5","6","7","8","9"}
Whitespace == {" "}

\* str.lower(), one character
LowerChar(c) ==
    IF \E i \in 1..Len(UpperChars) : UpperChars[i] = c
    THEN LowerChars[CHOOSE i \in 1..Len(UpperChars) : UpperChars[i] = c]
    ELSE c

\* str.lower()
Lower(s) == [i \in 1..Len(s) |-> LowerChar(s[i])]

\* s.startswith(p)
StartsWith(s, p) == Len(p) <= Len(s) /\ SubSeq(s, 1, Len(p)) = p

\* s.endswith(p)
EndsWith(s, p) ==
    Len(p) <= Len(s) /\ SubSeq(s, Len(s) - Len(p) + 1, Len(s)) = p

\* p in s
Contains(s, p) ==
    \E i \in 1..(Len(s) - Len(p) + 1) : SubSeq(s, i, i + Len(p) - 1) = p

\* s.strip()
RECURSIVE LStrip(_)
LStrip(s) ==
    IF s # <<>> /\ Head(s) \in Whitespace THEN LStrip(Tail(s)) ELSE s
RECURSIVE RStrip(_)
RStrip(s) ==
    IF s # <<>> /\ s[Len(s)] \in Whitespace
    THEN RStrip(SubSeq(s, 1, Len(s) - 1)) ELSE s
Strip(s) == RStrip(LStrip(s))

\* the concatenation of a sequence of strings
RECURSIVE Flatten(_)
Flatten(parts) ==
    IF parts = <<>> THEN <<>> ELSE Head(parts) \o Flatten(Tail(parts))

\* all sequences over S of length at most n
RECURSIVE SeqsUpTo(_, _)
SeqsUpTo(S, n) ==
    IF n = 0 THEN {<<>>}
    ELSE LET shorter == SeqsUpTo(S, n - 1)
         IN shorter \cup {Append(q, e) : q \in shorter, e \in S}

-----------------------------------------------------------------------------
(* Identifier resolver: get_pmcid_from_url *)

IsDigit(c) == c \in Digits

\* the pattern PMC(\d+) under re.IGNORECASE matches at position i
MatchAtCaseSensitive(s, i) ==
    /\ i + 3 <= Len(s)
    /\ s[i] = "P" /\ s[i + 1] = "M" /\ s[i + 2] = "C"
    /\ IsDigit(s[i + 3])

MatchAt(s, i) ==
    /\ i + 3 <= Len(s)
    /\ LowerChar(s[i]) = "p"
    /\ LowerChar(s[i + 1]) = "m"
    /\ LowerChar(s[i + 2]) = "c"
    /\ IsDigit(s[i + 3])

\* the group (\d+): the greedy run of digits from position j
RECURSIVE DigitRun(_, _)
DigitRun(s, j) ==
    IF j <= Len(s) /\ IsDigit(s[j])
    THEN <<s[j]>> \o DigitRun(s, j + 1)
    ELSE <<>>

\* re.search: the leftmost position at which the pattern matches
RECURSIVE ReSearchFrom(_, _)
ReSearchFrom(s, i) ==
    IF i > Len(s) THEN None
    ELSE IF MatchAt(s, i) THEN Str(DigitRun(s, i + 3))
    ELSE ReSearchFrom(s, i + 1)

get_pmcid_from_url(l) ==
    IF l.t # "str" THEN None ELSE ReSearchFrom(l.s, 1)

\* the references the resolver is called with: up to MaxLinkParts fragments
MaxLinkParts == 4
LinkFragments ==
    { <<"P","M","C">>, <<"p","m","c">>, <<"P","m">>, <<"C">>,
      <<"1","2">>, <<"7">>, <<"/">>, <<"a">> }
Links ==
    {Str(Flatten(p)) : p \in SeqsUpTo(LinkFragments, MaxLinkParts)}
        \cup {None, PyInt(4136787)}

IdInit ==
    /\ link \in Links
    /\ pmcidOut = None
    /\ idPc = "start"

Resolve ==
    /\ idPc = "start"
    /\ pmcidOut' = get_pmcid_from_url(link)
    /\ idPc' = "done"
    /\ UNCHANGED <<link, idFrame>>

IdNext == Resolve

-----------------------------------------------------------------------------
(* Python operations on values *)

\* bool(v)
Truthy(v) ==
    CASE v.t = "none" -> FALSE
      [] v.t = "str"  -> v.s # <<>>
      [] v.t = "int"  -> v.n # 0
      [] v.t = "list" -> v.l # <<>>
      [] v.t = "dict" -> DOMAIN v.d # {}

\* a or b
Or(a, b) == IF Truthy(a) THEN a ELSE b

\* d.get(k, default) of a dict value d
Get(d, k, default) == IF k \in DOMAIN d.d THEN d.d[k] ELSE default

\* d.get(k)
Get1(d, k) == Get(d, k, None)

\* the decimal digits of a natural number
RECURSIVE DecimalDigits(_)
DecimalDigits(n) ==
    LET digit == <<"0","1","2","3","4","5","6","7","8","9">>[(n % 10) + 1]
    IN IF n < 10 THEN <<digit>> ELSE Append(DecimalDigits(n \div 10), digit)

\* str(v) of a string, an integer or None
PyStr(v) ==
    CASE v.t = "str"  -> v.s
      [] v.t = "int"  -> DecimalDigits(v.n)
      [] v.t = "none" -> <<"N","o","n","e">>

s_doi == <<"d","o","i">>
s_doi_org == <<"d","o","i",".","o","r","g">>
s_doi_org_slash == <<"d","o","i",".","o","r","g","/">>
s_ten_dot == <<"1","0",".">>
s_NA == <<"N","/","A">>
EmptyStr == Str(<<>>)
NA == Str(s_NA)

-----------------------------------------------------------------------------
(* Metadata resolver: fetch_metadata_pmc *)

\* raised: what an operation yields when it raises an exception
Raised == [t |-> "raise"]
\* the value of metaRet while the function has not returned
NotYet == [t |-> "notyet"]

\* data.get("result", {}).get(str(pmcid), {}) or {}
\* (.get of a value that is no dict raises AttributeError)
SummaryResult(data, id) ==
    IF data.t # "dict" THEN Raised
    ELSE LET r == Get(data, "result", Dict(<<>>))
         IN IF r.t # "dict" THEN Raised
            ELSE Or(Get(r, PyStr(id), Dict(<<>>)), Dict(<<>>))

\* the loop over authors_raw: the non-empty names, in order
RECURSIVE AuthorNames(_)
AuthorNames(raw) ==
    IF raw = <<>> THEN <<>>
    ELSE LET a == Head(raw)
             name == IF a.t = "dict"
                     THEN Or(Get1(a, "name"), Get(a, "name", EmptyStr))
                     ELSE Str(PyStr(a))
         IN (IF Truthy(name) THEN <<name>> ELSE <<>>) \o AuthorNames(Tail(raw))

\* stage 1: doi from elocationid
StageANoLower(res) ==
    LET eloc == Get1(res, "elocationid")
    IN IF Truthy(eloc) /\ Contains(PyStr(eloc), s_doi)
       THEN Str(Strip(PyStr(eloc)))
       ELSE None

StageA(res) ==
    LET eloc == Get1(res, "elocationid")
    IN IF Truthy(eloc) /\ Contains(Lower(PyStr(eloc)), s_doi)
       THEN Str(Strip(PyStr(eloc)))
       ELSE None

\* stage 2, one entry of articleids, a bare string tested as a structured value
ArticleIdDoiValueTestOnly(aid) ==
    IF aid.t = "dict"
    THEN LET val == Or(Or(Get1(aid, "id"), Get1(aid, "value")),
                       Get(aid, "id", EmptyStr))
             idtype == Lower(PyStr(Or(Get1(aid, "idtype"), EmptyStr)))
         IN IF Contains(idtype, s_doi) /\ Truthy(val) THEN val
            ELSE IF val.t = "str"
                    /\ (Contains(val.s, s_doi_org) \/ StartsWith(val.s, s_ten_dot))
                 THEN val
            ELSE None
    ELSE LET s == PyStr(aid)
         IN IF Contains(s, s_doi_org) \/ StartsWith(s, s_ten_dot)
            THEN Str(Strip(s))
            ELSE None

\* stage 2, one entry of articleids: the doi it yields, None when it yields none
ArticleIdDoi(aid) ==
    IF aid.t = "dict"
    THEN LET val == Or(Or(Get1(aid, "id"), Get1(aid, "value")),
                       Get(aid, "id", EmptyStr))
             idtype == Lower(PyStr(Or(Get1(aid, "idtype"), EmptyStr)))
         IN IF idtype = s_doi /\ Truthy(val) THEN val
            ELSE IF Contains(idtype, s_doi) /\ Truthy(val) THEN val
            ELSE IF val.t = "str"
                    /\ (Contains(val.s, s_doi_org) \/ StartsWith(val.s, s_ten_dot))
                 THEN val
            ELSE None
    ELSE LET s == PyStr(aid)
         IN IF Contains(Lower(s), s_doi) \/ StartsWith(Strip(s), s_ten_dot)
            THEN Str(Strip(s))
            ELSE None

\* stage 2, the loop over articleids with its break
RECURSIVE ScanArticleIdsLast(_)
ScanArticleIdsLast(l) ==
    IF l = <<>> THEN None
    ELSE LET later == ScanArticleIdsLast(Tail(l))
         IN IF later # None THEN later ELSE ArticleIdDoi(Head(l))

RECURSIVE ScanArticleIds(_)
ScanArticleIds(l) ==
    IF l = <<>> THEN None
    ELSE IF ArticleIdDoi(Head(l)) # None THEN ArticleIdDoi(Head(l))
    ELSE ScanArticleIds(Tail(l))

\* stage 2: doi from articleids
StageB(res) ==
    LET articleids == Or(Or(Get1(res, "articleids"),
                            Get(res, "articleids", List(<<>>))), List(<<>>))
    IN IF articleids.t = "list" THEN ScanArticleIds(articleids.l) ELSE None

\* the last element of href.split("doi.org/"): what follows the last marker
RECURSIVE AfterLastMarker(_)
AfterLastMarker(h) ==
    IF Contains(h, s_doi_org_slash)
    THEN LET i == CHOOSE k \in 1..Len(h) :
                    /\ SubSeq(h, k, k + Len(s_doi_org_slash) - 1) = s_doi_org_slash
                    /\ \A j \in 1..(k - 1) :
                         SubSeq(h, j, j + Len(s_doi_org_slash) - 1) # s_doi_org_slash
         IN AfterLastMarker(SubSeq(h, i + Len(s_doi_org_slash), Len(h)))
    ELSE h

\* soup_xml.find("article-id", {"pub-id-type": re.compile("doi", re.I)}):
\* the first article-id element whose type attribute matches, None without one
RECURSIVE FindDoiArticleId(_)
FindDoiArticleId(tags) ==
    IF tags = <<>> THEN None
    ELSE IF Contains(Lower(Head(tags).type), s_doi) THEN Head(tags)
    ELSE FindDoiArticleId(Tail(tags))

\* soup_xml.find("ext-link", href=lambda h: h and "doi.org" in h)
RECURSIVE FindDoiOrgLink(_)
FindDoiOrgLink(hrefs) ==
    IF hrefs = <<>> THEN None
    ELSE IF Head(hrefs).s # <<>> /\ Contains(Head(hrefs).s, s_doi_org)
         THEN Head(hrefs)
    ELSE FindDoiOrgLink(Tail(hrefs))

\* stage 3: doi from the parsed efetch document
XmlDoi(xml) ==
    LET tag == FindDoiArticleId(xml.articleIds)
        lnk == FindDoiOrgLink(xml.extLinks)
    IN IF tag # None /\ Strip(tag.text) # <<>> THEN Str(Strip(tag.text))
       ELSE IF lnk # None
            THEN (IF Contains(lnk.s, s_doi_org_slash)
                  THEN Str(AfterLastMarker(lnk.s)) ELSE lnk)
       ELSE None

\* except Exception as e: return {"pmcid": pmcid, "error": str(e)}
ErrorRecordUncaught(id, msg) == Raised

ErrorRecord(id, msg) == Dict([k \in {"pmcid", "error"} |->
                                IF k = "pmcid" THEN id ELSE Str(msg)])


\* the records of the summary: a field may be absent, null or a string
Field(k, v) == [x \in {k} |-> v]

BibFull ==
    Field("title", Str(<<"T">>)) @@ Field("fulljournalname", Str(<<"J">>))
        @@ Field("pubdate", Str(<<"2","0","1","4">>))
        @@ Field("authors", List(<< Dict(Field("name", Str(<<"A">>))),
                                    Dict(Field("name", EmptyStr)),
                                    Str(<<"B">>),
                                    Dict(Field("authtype", Str(<<"x">>))) >>))
BibNull ==
    Field("title", None) @@ Field("fulljournalname", Str(<<"J">>))
        @@ Field("authors", None)
BibEmpty == <<>>
Bibs == {BibFull, BibNull, BibEmpty}

Elocs ==
    { <<>>,
      Field("elocationid", None),
      Field("elocationid", Str(<<"d","o","i",":","1","0",".","1","/","a">>)),
      Field("elocationid", Str(<<" ","D","O","I"," ","1","0",".","1","/","A"," ">>)),
      Field("elocationid", Str(<<"p","i","i",":","s","1">>)) }

ArticleIdEntries ==
    { Dict(Field("idtype", Str(s_doi))
             @@ Field("value", Str(<<"1","0",".","2","/","b">>))),
      Dict(Field("idtype", Str(<<"D","O","I">>))
             @@ Field("id", Str(<<"1","0",".","3","/","c">>))),
      Dict(Field("idtype", Str(<<"p","m","i","d">>))
             @@ Field("id", Str(<<"1","2","3">>))),
      Dict(Field("idtype", Str(<<"p","m","c","i","d">>))
             @@ Field("value", Str(<<"1","0",".","4","/","d">>))),
      Dict(Field("idtype", Str(s_doi)) @@ Field("value", EmptyStr)),
      Str(<<"1","0",".","5","/","e">>),
      Str(<<" ","d","o","i",":","x"," ">>),
      None }

\* articleids: absent, null, a string, or a list of at most MaxArticleIds entries
MaxArticleIds == 2
ArticleIdsFields ==
    { <<>>,
      Field("articleids", None),
      Field("articleids", Str(<<"1","0",".","9","/","z">>)) }
    \cup { Field("articleids", List(l)) :
             l \in SeqsUpTo(ArticleIdEntries, MaxArticleIds) \ {<<>>} }

SummaryRecords(bibs, elocs, aids) ==
    { Dict(b @@ e @@ a) : b \in bibs, e \in elocs, a \in aids }

\* the bodies of the summary response for an identifier: the record under
\* result[id], the record of another identifier, no result, a null record,
\* a null result, a body that is no object
SummaryBodies(id, records) ==
    { Dict(Field("result", Dict(Field(PyStr(id), r)))) : r \in records }
    \cup { Dict(Field("result", Dict(Field(<<"0">>, Dict(BibFull))))),
           Dict(<<>>),
           Dict(Field("result", Dict(Field(PyStr(id), None)))),
           Dict(Field("result", None)),
           List(<<>>) }

\* requests.get raises, raise_for_status raises, r.json() raises, or a body
SummaryResponses(id, records) ==
    { [kind |-> k, body |-> None] : k \in {"raise", "status", "badjson"} }
    \cup { [kind |-> "json", body |-> b] : b \in SummaryBodies(id, records) }

Tag(type, text) == [type |-> type, text |-> text]
Xml(articleIds, extLinks) == [articleIds |-> articleIds, extLinks |-> extLinks]
NoXml == Xml(<<>>, <<>>)

XmlDocs ==
    { Xml(<< Tag(s_doi, <<"1","0",".","7","/","g">>) >>, <<>>),
      Xml(<< Tag(<<"p","m","i","d">>, <<"9","9">>),
             Tag(<<"D","O","I">>, <<" ","1","0",".","7","/","g">>) >>,
          << Str(<<"h","t","t","p","s",":","/","/","d","o","i",".","o","r","g","/",
                   "1","0",".","8","/","h">>) >>),
      Xml(<< Tag(s_doi, <<" ">>),
             Tag(s_doi, <<"1","0",".","7","/","g">>) >>,
          << Str(<<"h","t","t","p",":","/","/","x",".","o","r","g","/","a">>),
             Str(<<"h","t","t","p","s",":","/","/","d","o","i",".","o","r","g","/",
                   "1","0",".","8","/","h">>) >>),
      Xml(<<>>, << Str(s_doi_org) >>),
      Xml(<<>>, << Str(<<"h","t","t","p","s",":","/","/","d","o","i",".","o","r","g","/">>) >>),
      NoXml }

\* requests.get raises, the status is not ok, or a document
EfetchResponses ==
    { [kind |-> k, xml |-> NoXml] : k \in {"raise", "notok"} }
    \cup { [kind |-> "ok", xml |-> x] : x \in XmlDocs }

\* the state of fetch_metadata_pmc before it is called
MetaIdle ==
    /\ pmcid = None
    /\ sumResp = [kind |-> "raise", body |-> None]
    /\ efResp = [kind |-> "raise", xml |-> NoXml]
    /\ metaPc = "idle"
    /\ result = None
    /\ meta = None
    /\ doi = None
    /\ requests = <<>>
    /\ metaRet = NotYet

\* a call of fetch_metadata_pmc(id): meta = {"pmcid": pmcid}
MetaCalled(id) ==
    /\ pmcid = id
    /\ metaPc = "summary"
    /\ result = None
    /\ meta = Dict(Field("pmcid", id))
    /\ doi = None
    /\ requests = <<>>
    /\ metaRet = NotYet

\* the summary request, and title, journal, pubdate and authors from its record
MSummary ==
    /\ metaPc = "summary"
    /\ requests' = Append(requests, "esummary")
    /\ LET res == IF sumResp.kind = "json"
                  THEN SummaryResult(sumResp.body, pmcid) ELSE Raised
       IN IF res = Raised
          THEN /\ metaRet' = ErrorRecord(pmcid, <<"s","u","m","m","a","r","y">>)
               /\ metaPc' = "returned"
               /\ UNCHANGED <<result, meta>>
          ELSE /\ result' = res
               /\ meta' = Dict(
                      Field("authors",
                            List(AuthorNames(
                                Or(Get(res, "authors", List(<<>>)), List(<<>>)).l)))
                      @@ Field("pubdate", Get(res, "pubdate", NA))
                      @@ Field("journal", Get(res, "fulljournalname", NA))
                      @@ Field("title", Get(res, "title", NA))
                      @@ meta.d)
               /\ metaPc' = "stageA"
               /\ UNCHANGED metaRet
    /\ UNCHANGED <<pmcid, sumResp, efResp, doi, metaFrame>>

\* doi = None, then stage 1
MStageA ==
    /\ metaPc = "stageA"
    /\ doi' = StageA(result)
    /\ metaPc' = "stageB"
    /\ UNCHANGED <<pmcid, sumResp, efResp, result, meta, requests, metaRet, metaFrame>>

\* stage 2, entered only without a doi
MStageB ==
    /\ metaPc = "stageB"
    /\ doi' = IF ~Truthy(doi) THEN StageB(result) ELSE doi
    /\ metaPc' = "stageC"
    /\ UNCHANGED <<pmcid, sumResp, efResp, result, meta, requests, metaRet, metaFrame>>

\* stage 3: whether the efetch request is issued
NeedsEfetchAlways(d) == TRUE

NeedsEfetch(d) == ~Truthy(d)

\* stage 3, entered only without a doi: the efetch request and its document
MStageC ==
    /\ metaPc = "stageC"
    /\ IF NeedsEfetch(doi)
       THEN /\ requests' = Append(requests, "efetch")
            /\ IF efResp.kind = "raise"
               THEN /\ metaRet' = ErrorRecord(pmcid, <<"e","f","e","t","c","h">>)
                    /\ metaPc' = "returned"
                    /\ UNCHANGED doi
               ELSE /\ doi' = IF efResp.kind = "ok" /\ XmlDoi(efResp.xml) # None
                              THEN XmlDoi(efResp.xml) ELSE doi
                    /\ metaPc' = "return"
                    /\ UNCHANGED metaRet
       ELSE /\ metaPc' = "return"
            /\ UNCHANGED <<requests, doi, metaRet>>
    /\ UNCHANGED <<pmcid, sumResp, efResp, result, meta, metaFrame>>

\* meta["doi"] = doi if doi else "N/A"
DoiFieldNoDefault(d) == d

DoiField(d) == IF Truthy(d) THEN d ELSE NA

\* meta["doi"] = ...; return meta
MReturn ==
    /\ metaPc = "return"
    /\ meta' = Dict(Field("doi", DoiField(doi)) @@ meta.d)
    /\ metaRet' = Dict(Field("doi", DoiField(doi)) @@ meta.d)
    /\ metaPc' = "returned"
    /\ UNCHANGED <<pmcid, sumResp, efResp, result, doi, requests, metaFrame>>

MetaNext == MSummary \/ MStageA \/ MStageB \/ MStageC \/ MReturn

\* the identifiers fetch_metadata_pmc is called with
MetaIds == {Str(<<"7">>)}

MetaInit ==
    /\ \E id \in MetaIds :
         /\ MetaCalled(id)
         /\ sumResp \in SummaryResponses(id,
                            SummaryRecords(Bibs, Elocs, ArticleIdsFields))
    /\ efResp \in EfetchResponses

-----------------------------------------------------------------------------
(* The parsed page: a tree of elements, kept as the sequence of its elements *)
(* in document order, each naming its parent (0: the BeautifulSoup object)  *)

\* an element with its children: its tag, class tokens, the other attributes
\* (a function from names to strings), its own text and its child elements
El(tag, cls, attrs, text, kids) ==
    [tag |-> tag, cls |-> cls, attrs |-> attrs, text |-> text, kids |-> kids]

Attr(k, v) == [x \in {k} |-> v]
NoAttrs == <<>>

\* the elements of a sequence of trees in document order; the first one gets
\* the index offset + 1
RECURSIVE FlatNodes(_, _, _)
FlatNodes(trees, parent, offset) ==
    IF trees = <<>> THEN <<>>
    ELSE LET t == Head(trees)
             me == offset + 1
             below == FlatNodes(t.kids, me, me)
         IN << [tag |-> t.tag, parent |-> parent, cls |-> t.cls,
                attrs |-> t.attrs, text |-> t.text] >>
            \o below
            \o FlatNodes(Tail(trees), parent, me + Len(below))

\* BeautifulSoup(response.content, 'html.parser') of a page with these trees
Soup(trees) == FlatNodes(trees, 0, 0)

\* el.parents, nearest first, without the BeautifulSoup object
RECURSIVE Parents(_, _)
Parents(d, i) ==
    IF d[i].parent = 0 THEN <<>>
    ELSE <<d[i].parent>> \o Parents(d, d[i].parent)

IsAncestor(d, a, i) ==
    a = 0 \/ LET above == Parents(d, i)
             IN \E k \in 1..Len(above) : above[k] = a

\* the sequence of the indices in S, in increasing order
RECURSIVE Ascending(_)
Ascending(S) ==
    IF S = {} THEN <<>>
    ELSE LET m == CHOOSE x \in S : \A y \in S : x <= y
         IN <<m>> \o Ascending(S \ {m})

\* el.descendants that are elements, in document order (0: the whole page)
Descendants(d, i) ==
    Ascending({j \in 1..Len(d) : j # i /\ IsAncestor(d, i, j)})

FirstOf(seq) == IF seq = <<>> THEN 0 ELSE Head(seq)

\* el.find_all(tags): the descendants with one of the tags, in document order
FindAll(d, i, tags) ==
    Ascending({j \in 1..Len(d) : j # i /\ IsAncestor(d, i, j) /\ d[j].tag \in tags})

\* el.find(tag): the first such descendant, 0 (None) without one
Find(d, i, tags) == FirstOf(FindAll(d, i, tags))

\* el.get(name): the attribute, None when the element lacks it
GetAttr(d, i, name) ==
    IF name \in DOMAIN d[i].attrs THEN Str(d[i].attrs[name]) ELSE None

\* el.get(name, ''): the attribute as a string, '' when the element lacks it
GetAttrOr(d, i, name) ==
    IF name \in DOMAIN d[i].attrs THEN d[i].attrs[name] ELSE <<>>

\* ' '.join(class tokens): the class attribute as one string
RECURSIVE JoinTokens(_)
JoinTokens(tokens) ==
    IF tokens = <<>> THEN <<>>
    ELSE IF Len(tokens) = 1 THEN tokens[1]
    ELSE tokens[1] \o <<" ">> \o JoinTokens(Tail(tokens))

HasClassToken(d, i, token) ==
    \E k \in 1..Len(d[i].cls) : d[i].cls[k] = token

\* own text and the text of the descendants, each piece stripped, joined
RECURSIVE JoinText(_, _)
JoinText(d, idxs) ==
    IF idxs = <<>> THEN <<>>
    ELSE Strip(d[Head(idxs)].text) \o JoinText(d, Tail(idxs))

\* el.get_text(strip=True) (0: the whole page)
GetText(d, i) ==
    (IF i = 0 THEN <<>> ELSE Strip(d[i].text)) \o JoinText(d, Descendants(d, i))

\* context_text[:500] + "..." if len(context_text) > 500 else context_text
ContextLimit == 500
Context(text) ==
    IF Len(text) > ContextLimit
    THEN SubSeq(text, 1, ContextLimit) \o <<".", ".", ".">>
    ELSE text

\* the elements from el to the end of its subtree
Subtree(d, i) ==
    LET below == Descendants(d, i)
    IN <<d[i]>> \o [k \in 1..Len(below) |-> d[below[k]]]

-----------------------------------------------------------------------------
(* Exclusion filter: _should_skip_image, in both variants *)

\* skip_patterns
skip_patterns_without_https ==
    { <<"s","t","a","t","i","c","/","i","m","g","/">>, <<"i","c","o","n","-">>,
      <<"l","o","g","o">>, <<"b","a","n","n","e","r">>, <<"h","e","a","d","e","r">>,
      <<"f","o","o","t","e","r">>, <<"n","a","v","-">>, <<"b","u","t","t","o","n">>,
      <<"a","r","r","o","w">>, <<"c","l","o","s","e">>, <<"s","e","a","r","c","h">>,
      <<"m","e","n","u">>, <<"f","l","a","g">>, <<"d","o","t","-","g","o","v">>,
      <<"u","s","a","-","i","c","o","n","s">>,
      <<"n","c","b","i","-","l","o","g","o","s">> }

skip_patterns ==
    { <<"s","t","a","t","i","c","/","i","m","g","/">>, <<"i","c","o","n","-">>,
      <<"l","o","g","o">>, <<"b","a","n","n","e","r">>, <<"h","e","a","d","e","r">>,
      <<"f","o","o","t","e","r">>, <<"n","a","v","-">>, <<"b","u","t","t","o","n">>,
      <<"a","r","r","o","w">>, <<"c","l","o","s","e">>, <<"s","e","a","r","c","h">>,
      <<"m","e","n","u">>, <<"f","l","a","g">>, <<"d","o","t","-","g","o","v">>,
      <<"h","t","t","p","s">>, <<"u","s","a","-","i","c","o","n","s">>,
      <<"n","c","b","i","-","l","o","g","o","s">> }

\* skip_alt_patterns
skip_alt_patterns ==
    { <<"l","o","g","o">>, <<"i","c","o","n">>, <<"b","u","t","t","o","n">>,
      <<"a","r","r","o","w">>, <<"c","l","o","s","e">>, <<"s","e","a","r","c","h">>,
      <<"m","e","n","u">>, <<"f","l","a","g">>, <<"b","a","n","n","e","r">>,
      <<"h","e","a","d","e","r">>, <<"f","o","o","t","e","r">>, <<"n","a","v">> }

\* interface_indicators
interface_indicators ==
    { <<"h","e","a","d","e","r">>, <<"f","o","o","t","e","r">>, <<"n","a","v">>,
      <<"m","e","n","u">>, <<"s","i","d","e","b","a","r">>,
      <<"t","o","o","l","b","a","r">>, <<"b","a","n","n","e","r">>,
      <<"l","o","g","o">>, <<"i","c","o","n">>, <<"b","u","t","t","o","n">>,
      <<"c","o","n","t","r","o","l">> }

s_data == <<"d","a","t","a",":">>

\* the value of a run of decimal digits
RECURSIVE DigitsValue(_)
DigitsValue(ds) ==
    IF ds = <<>> THEN 0
    ELSE 10 * DigitsValue(SubSeq(ds, 1, Len(ds) - 1))
         + (CHOOSE n \in 0..9 :
              <<"0","1","2","3","4","5","6","7","8","9">>[n + 1] = ds[Len(ds)])

\* int(s): the number (a record [ok, n]); ValueError unless s, stripped, is an
\* optional sign and digits
ParseInt(s) ==
    LET t == Strip(s)
        signed == t # <<>> /\ t[1] \in {"+", "-"}
        ds == IF signed THEN Tail(t) ELSE t
    IN IF ds # <<>> /\ \A k \in 1..Len(ds) : ds[k] \in Digits
       THEN [ok |-> TRUE,
             n |-> IF signed /\ t[1] = "-" THEN 0 - DigitsValue(ds) ELSE DigitsValue(ds)]
       ELSE [ok |-> FALSE, n |-> 0]

\* if w < 50 or h < 50
MinImageSide == 50

\* for pattern in skip_patterns: if pattern in img_url.lower()
UrlHasSkipPatternCaseSensitive(url) ==
    \E p \in skip_patterns : Contains(url, p)

UrlHasSkipPattern(url) ==
    LET lowered == Lower(url)
    IN \E p \in skip_patterns : Contains(lowered, p)

\* for pattern in skip_alt_patterns: if pattern in alt_text
AltHasSkipPattern(d, i) ==
    LET alt_text == Lower(GetAttrOr(d, i, "alt"))
    IN \E p \in skip_alt_patterns : Contains(alt_text, p)

\* width and height both given, both integers, one of them below 50
TooSmall(d, i) ==
    LET width == GetAttr(d, i, "width")
        height == GetAttr(d, i, "height")
    IN /\ Truthy(width) /\ Truthy(height)
       /\ ParseInt(width.s).ok /\ ParseInt(height.s).ok
       /\ (ParseInt(width.s).n < MinImageSide \/ ParseInt(height.s).n < MinImageSide)

\* the class or the id of img.parent holds an interface indicator
ParentIsInterface(d, i) ==
    LET parent == d[i].parent
        parent_class == IF parent = 0 THEN <<>> ELSE d[parent].cls
        parent_id == IF parent = 0 THEN <<>> ELSE GetAttrOr(d, parent, "id")
        class_lowered == Lower(JoinTokens(parent_class))
        id_lowered == Lower(parent_id)
    IN \E indicator \in interface_indicators :
         \/ Contains(class_lowered, indicator)
         \/ Contains(id_lowered, indicator)

\* SimpleVisualExtractor._should_skip_image
should_skip_image_simple(d, i, url) ==
    IF StartsWith(url, s_data) THEN TRUE
    ELSE IF UrlHasSkipPattern(url) THEN TRUE
    ELSE IF AltHasSkipPattern(d, i) THEN TRUE
    ELSE IF TooSmall(d, i) THEN TRUE
    ELSE FALSE

\* VisualElementsExtractor._should_skip_image
should_skip_image_full(d, i, url) ==
    IF StartsWith(url, s_data) THEN TRUE
    ELSE IF UrlHasSkipPattern(url) THEN TRUE
    ELSE IF AltHasSkipPattern(d, i) THEN TRUE
    ELSE IF TooSmall(d, i) THEN TRUE
    ELSE IF ParentIsInterface(d, i) THEN TRUE
    ELSE FALSE

ShouldSkipImage(v, d, i, url) ==
    IF v = "simple" THEN should_skip_image_simple(d, i, url)
    ELSE should_skip_image_full(d, i, url)

Variants == {"simple", "full"}

\* the candidates the filter is called with: an img with a non-empty src, with
\* or without alt, width and height, under the page or under two nested divs
FilterSrcs ==
    { <<"/","f","/","a",".","p","n","g">>,
      <<"/","/","c","d","n",".","x","/","b",".","j","p","g">>,
      <<"i","m","g","/","d",".","p","n","g">>,
      <<"h","t","t","p",":","/","/","x",".","o","r","g","/","c",".","p","n","g">>,
      <<"H","T","T","P","S",":","/","/","x",".","o","r","g","/","c",".","p","n","g">>,
      <<"/","i","m","g","/","L","o","g","o",".","p","n","g">>,
      <<"/","i","c","o","n","-","x",".","g","i","f">>,
      <<"/","i","c","o","n","s","/","e",".","g","i","f">>,
      <<"d","a","t","a",":","i","m","a","g","e","/","g","i","f",";","R","0">>,
      <<"d","a","t","a",":","l","o","g","o">> }
FilterAlts ==
    { NoAttrs, Attr("alt", <<>>), Attr("alt", <<"F","i","g"," ","1">>),
      Attr("alt", <<"N","C","B","I"," ","L","o","g","o">>) }
FilterWidths ==
    { NoAttrs, Attr("width", <<"4","0">>), Attr("width", <<"5","0">>),
      Attr("width", <<"8","0","%">>) }
FilterHeights ==
    { NoAttrs, Attr("height", <<"2","0">>), Attr("height", <<"2","0","0">>) }
FilterParentClasses ==
    { <<>>, << <<"c","o","n","t","e","n","t">> >>,
      << <<"p","a","g","e">>, <<"H","e","a","d","e","r">> >> }
FilterParentIds == { NoAttrs, Attr("id", <<"t","o","o","l","b","a","r">>) }
FilterOuterClasses == { <<>>, << <<"f","o","o","t","e","r">> >> }

FilterImgs ==
    { El("img", <<>>, Attr("src", src) @@ alt @@ w @@ h, <<>>, <<>>) :
        src \in FilterSrcs, alt \in FilterAlts,
        w \in FilterWidths, h \in FilterHeights }

\* the pages, each with the index of its img
FilterPages ==
    { [doc |-> Soup(<<img>>), img |-> 1] : img \in FilterImgs }
    \cup { [doc |-> Soup(<< El("div", oc, NoAttrs, <<>>,
                               << El("div", pc, pid, <<>>, <<img>>) >>) >>),
            img |-> 3] :
             img \in FilterImgs, oc \in FilterOuterClasses,
             pc \in FilterParentClasses, pid \in FilterParentIds }

FilterIdle ==
    /\ fVariant = "simple"
    /\ fDoc = <<>>
    /\ fImg = 0
    /\ fUrl = <<>>
    /\ fSkip = None
    /\ fPc = "idle"

\* a call self._should_skip_image(img, img_url) from extract_images, where
\* img_url is the non-empty src of img
FilterInit ==
    /\ fVariant \in Variants
    /\ \E pg \in FilterPages :
         /\ fDoc = pg.doc
         /\ fImg = pg.img
         /\ fUrl = pg.doc[pg.img].attrs["src"]
    /\ fSkip = None
    /\ fPc = "start"

FilterCall ==
    /\ fPc = "start"
    /\ fSkip' = ShouldSkipImage(fVariant, fDoc, fImg, fUrl)
    /\ fPc' = "done"
    /\ UNCHANGED <<fVariant, fDoc, fImg, fUrl, filterFrame>>

FilterNext == FilterCall

-----------------------------------------------------------------------------
(* The visual extractor: selectors, addresses and downloads *)

s_figure == <<"f","i","g","u","r","e">>
s_fig == <<"f","i","g">>
s_caption == <<"c","a","p","t","i","o","n">>
s_fig_caption == <<"f","i","g","-","c","a","p","t","i","o","n">>
s_table_caption == <<"t","a","b","l","e","-","c","a","p","t","i","o","n">>
s_http == <<"h","t","t","p",":","/","/">>
s_https == <<"h","t","t","p","s",":","/","/">>
s_https_colon == <<"h","t","t","p","s",":">>
s_slashes == <<"/","/">>
s_slash == <<"/">>

\* a CSS selector tag.token, tag[class*="part"], tag or tag[attr]
ByClass(tag, token) == [tag |-> tag, kind |-> "class", arg |-> token]
ByClassPart(tag, part) == [tag |-> tag, kind |-> "classPart", arg |-> part]
ByTag(tag) == [tag |-> tag, kind |-> "tag", arg |-> <<>>]
ByAttr(tag, name) == [tag |-> tag, kind |-> "attr", arg |-> name]

\* figure_selectors
figure_selectors ==
    << ByClass("div", s_figure), ByClass("div", s_fig),
       ByClassPart("div", s_figure), ByClassPart("div", s_fig),
       ByTag("figure"), ByAttr("div", "data-fig") >>

\* caption_selectors
caption_selectors ==
    << ByClass("div", s_caption), ByClass("div", s_fig_caption),
       ByClass("p", s_caption), ByClass("span", s_caption),
       ByClassPart("div", s_caption) >>

\* [class*="part"] read as a whole class token
MatchesWholeToken(d, j, selector) ==
    /\ d[j].tag = selector.tag
    /\ CASE selector.kind = "class" -> HasClassToken(d, j, selector.arg)
         [] selector.kind = "classPart" -> HasClassToken(d, j, selector.arg)
         [] selector.kind = "tag" -> TRUE
         [] selector.kind = "attr" -> selector.arg \in DOMAIN d[j].attrs

Matches(d, j, selector) ==
    /\ d[j].tag = selector.tag
    /\ CASE selector.kind = "class" -> HasClassToken(d, j, selector.arg)
         [] selector.kind = "classPart" ->
                d[j].cls # <<>> /\ Contains(JoinTokens(d[j].cls), selector.arg)
         [] selector.kind = "tag" -> TRUE
         [] selector.kind = "attr" -> selector.arg \in DOMAIN d[j].attrs

\* el.select(selector): the matching descendants in document order
Select(d, i, selector) ==
    Ascending({j \in 1..Len(d) : j # i /\ IsAncestor(d, i, j) /\ Matches(d, j, selector)})

\* the caption loop: the text of the first match of the first caption
\* selector that matches below fig, '' when none does
RECURSIVE CaptionFrom(_, _, _)
CaptionFrom(d, fig, k) ==
    IF k > Len(caption_selectors) THEN <<>>
    ELSE LET found == Select(d, fig, caption_selectors[k])
         IN IF found # <<>>
            THEN GetText(d, Head(found))
            ELSE CaptionFrom(d, fig, k + 1)

\* the index of the first occurrence of a character at or after k, 0 without
RECURSIVE IndexFrom(_, _, _)
IndexFrom(s, ch, k) ==
    IF k > Len(s) THEN 0
    ELSE IF s[k] = ch THEN k
    ELSE IndexFrom(s, ch, k + 1)

\* scheme://netloc of an address with a scheme
Origin(url) ==
    LET colon == IndexFrom(url, ":", 1)
        slash == IndexFrom(url, "/", colon + 3)
    IN IF slash = 0 THEN url ELSE SubSeq(url, 1, slash - 1)

\* urljoin(base, path) for a path that starts with one slash
urljoin(base, path) == Origin(base) \o path

\* the address of an image as stored: '//...' gets 'https:', '/...' is joined
\* to the page address, anything else is kept
ResolveUrl(base, img_url) ==
    IF StartsWith(img_url, s_slashes) THEN s_https_colon \o img_url
    ELSE IF StartsWith(img_url, s_slash) THEN urljoin(base, img_url)
    ELSE img_url

\* session.get accepts an address: it has the scheme http or https
HasHttpScheme(url) ==
    LET lowered == Lower(url)
    IN StartsWith(lowered, s_http) \/ StartsWith(lowered, s_https)

\* s up to the first character of stops
RECURSIVE UpTo(_, _)
UpTo(s, stops) ==
    IF s = <<>> \/ Head(s) \in stops THEN <<>>
    ELSE <<Head(s)>> \o UpTo(Tail(s), stops)

\* urlparse(url).path of an address with the scheme http or https
UrlPath(url) ==
    LET colon == IndexFrom(url, ":", 1)
        slash == IndexFrom(url, "/", colon + 3)
    IN IF slash = 0 THEN <<>>
       ELSE UpTo(SubSeq(url, slash, Len(url)), {"?", "#"})

\* the index of the last occurrence of a character, 0 without
RECURSIVE LastIndex(_, _)
LastIndex(s, ch) ==
    IF s = <<>> THEN 0
    ELSE IF s[Len(s)] = ch THEN Len(s)
    ELSE LastIndex(SubSeq(s, 1, Len(s) - 1), ch)

\* os.path.splitext(path)[1]: from the last dot of the last component, unless
\* only dots precede it in the component
Splitext(path) ==
    LET name == SubSeq(path, LastIndex(path, "/") + 1, Len(path))
        dot == LastIndex(name, ".")
    IN IF dot = 0 \/ \A k \in 1..dot : name[k] = "." THEN <<>>
       ELSE SubSeq(name, dot, Len(name))

\* the path download_image writes to
ImagePath(url, filename) ==
    LET ext == Splitext(UrlPath(url))
    IN <<"i","m","a","g","e","s","/">> \o filename
       \o (IF ext = <<>> THEN <<".","j","p","g">> ELSE ext)

\* download_image succeeds: the request is sent and answered with success
DownloadOk(url, failing) == HasHttpScheme(url) /\ url \notin failing

\* download_image(url, filename): the path, None on any failure
download_image(url, filename, failing) ==
    IF DownloadOk(url, failing) THEN Str(ImagePath(url, filename)) ELSE None

\* the files after download_image(url, filename): the content is the one
\* served at url
FilesAfterDownload(fs, url, filename, failing) ==
    IF DownloadOk(url, failing)
    THEN LET path == ImagePath(url, filename)
         IN [p \in DOMAIN fs \cup {path} |->
               IF p = path THEN [from |-> url] ELSE fs[p]]
    ELSE fs

\* str(local_path) if local_path else ''
PathOrEmpty(path) == IF path = None THEN <<>> ELSE path.s

\* i + 1 of enumerate, as text
Ordinal(n) == DecimalDigits(n)

\* the first img below el that find('img') returns, and its src when it has a
\* non-empty one
FigureImgUrl(d, fig) ==
    LET img == Find(d, fig, {"img"})
    IN IF img # 0 /\ Truthy(GetAttr(d, img, "src"))
       THEN Str(d[img].attrs["src"]) ELSE None

\* the entry extract_figures builds for the k-th match fig of a selector
FigureData(v, d, base, fig, k, failing) ==
    LET src == FigureImgUrl(d, fig)
        img_url == IF src = None THEN <<>> ELSE ResolveUrl(base, src.s)
        local_path == IF src = None THEN None
                      ELSE download_image(img_url,
                               <<"f","i","g","u","r","e","_">> \o Ordinal(k), failing)
        entry == [type |-> "figure", number |-> k,
                  caption |-> CaptionFrom(d, fig, 1),
                  image_url |-> img_url,
                  local_path |-> PathOrEmpty(local_path),
                  context |-> Context(GetText(d, d[fig].parent))]
    IN IF v = "full" THEN entry @@ [description |-> <<>>] ELSE entry

\* if figure_data['image_url'] or figure_data['caption']
FigureKeptIfDownloaded(entry) == entry.local_path # <<>> \/ entry.caption # <<>>

FigureKeptWithImage(entry) == entry.image_url # <<>>

FigureKept(entry) == entry.image_url # <<>> \/ entry.caption # <<>>

-----------------------------------------------------------------------------
(* The visual extractor: tables and standalone images *)

\* el.find_previous_sibling(): the nearest element before el under the same
\* parent, 0 (None) without one
PreviousSibling(d, i) ==
    LET before == {j \in 1..(i - 1) : d[j].parent = d[i].parent}
    IN IF before = {} THEN 0 ELSE CHOOSE j \in before : \A k \in before : k <= j

\* parent.find(['div', 'p'], class_=re.compile(r'caption|table-caption'))
FindCaptionElem(d, parent) ==
    FirstOf(Ascending({j \in 1..Len(d) :
        /\ j # parent /\ IsAncestor(d, parent, j)
        /\ d[j].tag \in {"div", "p"}
        /\ \E c \in 1..Len(d[j].cls) : Contains(d[j].cls[c], s_caption)}))

\* SimpleVisualExtractor.extract_tables, the caption by nested if/else: the
\* caption element of the table, else the previous sibling of class caption
\* or table-caption, else a div or p of a caption class below the parent,
\* else ''
table_caption_simple(d, table) ==
    LET caption == Find(d, table, {"caption"})
        prev_sibling == PreviousSibling(d, table)
        caption_elem == FindCaptionElem(d, d[table].parent)
    IN IF caption # 0 THEN GetText(d, caption)
       ELSE IF /\ prev_sibling # 0
               /\ \/ HasClassToken(d, prev_sibling, s_caption)
                  \/ HasClassToken(d, prev_sibling, s_table_caption)
            THEN GetText(d, prev_sibling)
       ELSE IF caption_elem # 0 THEN GetText(d, caption_elem)
       ELSE <<>>

\* the caption by three ifs in sequence, none of them guarded by a flag
table_caption_unflagged(d, table) ==
    LET caption == Find(d, table, {"caption"})
        prev_sibling == PreviousSibling(d, table)
        caption_elem == FindCaptionElem(d, d[table].parent)
        first == IF caption # 0 THEN GetText(d, caption) ELSE <<>>
        second == IF /\ prev_sibling # 0
                     /\ \/ HasClassToken(d, prev_sibling, s_caption)
                        \/ HasClassToken(d, prev_sibling, s_table_caption)
                  THEN GetText(d, prev_sibling) ELSE first
    IN IF caption_elem # 0 THEN GetText(d, caption_elem) ELSE second

\* VisualElementsExtractor.extract_tables, the caption by the flag
\* caption_found: each of the three ifs in sequence assigns the caption and
\* sets the flag, the second and the third run under 'if not caption_found'
table_caption_full(d, table) ==
    LET caption == Find(d, table, {"caption"})
        found1 == caption # 0
        caption1 == IF found1 THEN GetText(d, caption) ELSE <<>>
        prev_sibling == PreviousSibling(d, table)
        hit2 == /\ ~found1
                /\ prev_sibling # 0
                /\ \/ HasClassToken(d, prev_sibling, s_caption)
                   \/ HasClassToken(d, prev_sibling, s_table_caption)
        found2 == found1 \/ hit2
        caption2 == IF hit2 THEN GetText(d, prev_sibling) ELSE caption1
        caption_elem == FindCaptionElem(d, d[table].parent)
        hit3 == ~found2 /\ caption_elem # 0
    IN IF hit3 THEN GetText(d, caption_elem) ELSE caption2

\* the caption of a table in the variant v
TableCaption(v, d, table) ==
    IF v = "simple" THEN table_caption_simple(d, table)
    ELSE table_caption_full(d, table)

\* the texts of the cells of a row
RowData(d, row) ==
    LET cells == FindAll(d, row, {"td", "th"})
    IN [k \in 1..Len(cells) |-> GetText(d, cells[k])]

\* the rows of a list of tr elements, those without cells left out
RECURSIVE RowsOfKeepEmpty(_, _)
RowsOfKeepEmpty(d, rows) ==
    IF rows = <<>> THEN <<>>
    ELSE <<RowData(d, Head(rows))>> \o RowsOfKeepEmpty(d, Tail(rows))

RECURSIVE RowsOf(_, _)
RowsOf(d, rows) ==
    IF rows = <<>> THEN <<>>
    ELSE LET row_data == RowData(d, Head(rows))
         IN (IF row_data # <<>> THEN <<row_data>> ELSE <<>>)
            \o RowsOf(d, Tail(rows))

\* extract_table_data(table)
extract_table_data(d, table) == RowsOf(d, FindAll(d, table, {"tr"}))

\* the file a table is saved to
TablePath(k) ==
    <<"t","a","b","l","e","s","/">> \o <<"t","a","b","l","e","_">> \o Ordinal(k)
    \o <<".","h","t","m","l">>

\* the entry extract_tables builds for the k-th table
TableData(v, d, table, k) ==
    LET entry == [type |-> "table", number |-> k,
                  caption |-> TableCaption(v, d, table),
                  html_content |-> Subtree(d, table),
                  local_path |-> TablePath(k),
                  context |-> Context(GetText(d, d[table].parent)),
                  data |-> extract_table_data(d, table)]
    IN IF v = "full" THEN entry @@ [description |-> <<>>] ELSE entry

\* the tables extract_tables loops over
TableElements(d) == FindAll(d, 0, {"table"})

\* img.find_parent(['div', 'figure'], class_=lambda x: 'fig' in x.lower()):
\* the nearest such ancestor, 0 (None) without one
ParentFigure(d, img) ==
    FirstOf(SelectSeq(Parents(d, img),
        LAMBDA a : /\ d[a].tag \in {"div", "figure"}
                   /\ Contains(Lower(JoinTokens(d[a].cls)), s_fig)))

\* img.find_parents(['div', 'figure'], class_=...) with the keywords figure,
\* fig and caption
FigureContainers(d, img) ==
    SelectSeq(Parents(d, img),
        LAMBDA a : /\ d[a].tag \in {"div", "figure"}
                   /\ LET lowered == Lower(JoinTokens(d[a].cls))
                      IN \E keyword \in {s_figure, s_fig, s_caption} :
                           Contains(lowered, keyword))

\* the img is passed over, the exclusion filter left out
ImageSkippedUnfiltered(v, d, img) ==
    \/ ParentFigure(d, img) # 0
    \/ FigureContainers(d, img) # <<>>
    \/ ~Truthy(GetAttr(d, img, "src"))

\* the img is passed over: it belongs to a figure, has no src, or is filtered
ImageSkipped(v, d, img) ==
    \/ ParentFigure(d, img) # 0
    \/ FigureContainers(d, img) # <<>>
    \/ ~Truthy(GetAttr(d, img, "src"))
    \/ ShouldSkipImage(v, d, img, d[img].attrs["src"])

\* the entry extract_images builds for an img when n images were kept before
ImageData(v, d, base, img, n, failing) ==
    LET img_url == ResolveUrl(base, d[img].attrs["src"])
        local_path == download_image(img_url,
                          <<"i","m","a","g","e","_">> \o Ordinal(n + 1), failing)
        entry == [type |-> "image", number |-> n + 1,
                  alt_text |-> GetAttrOr(d, img, "alt"),
                  image_url |-> img_url,
                  local_path |-> PathOrEmpty(local_path),
                  context |-> Context(GetText(d, d[img].parent))]
    IN IF v = "full" THEN entry @@ [description |-> <<>>] ELSE entry

\* the three lengths added up
TotalElementsWithoutFigures(e) == Len(e.images) + Len(e.tables)

TotalElements(e) == Len(e.images) + Len(e.tables) + Len(e.figures)

-----------------------------------------------------------------------------
(* The visual extractor: the pages it is run on *)

ImgSrc(src) == El("img", <<>>, Attr("src", src), <<>>, <<>>)
Cell(tag, text) == El(tag, <<>>, NoAttrs, text, <<>>)
Row(cells) == El("tr", <<>>, NoAttrs, <<>>, cells)

\* div.figure with an image and a caption
BlockFigure ==
    << El("div", <<s_figure>>, NoAttrs, <<>>,
          << ImgSrc(<<"/","f","/","a",".","p","n","g">>),
             El("div", <<s_caption>>, NoAttrs, <<"F","A">>, <<>>) >>) >>

\* a figure element with an image and no caption
BlockFigureTag ==
    << El("figure", <<>>, NoAttrs, <<>>,
          << ImgSrc(<<"/","/","c",".","x","/","b",".","j","p","g">>) >>) >>

\* a figure element with another image of the same extension as BlockFigure
BlockFigureOther ==
    << El("figure", <<>>, NoAttrs, <<>>,
          << ImgSrc(<<"/","f","/","c",".","p","n","g">>) >>) >>

\* div.fig-box[data-fig] with a caption and no image
BlockFigBox ==
    << El("div", << <<"f","i","g","-","b","o","x">> >>, Attr("data-fig", <<"1">>), <<>>,
          << El("p", <<s_caption>>, NoAttrs, <<"F","B">>, <<>>) >>) >>

\* div.fig with neither image nor caption
BlockFigEmpty ==
    << El("div", <<s_fig>>, NoAttrs, <<"x">>, <<>>) >>

\* a table with a caption element, a row of two cells and a row without cells
BlockTable ==
    << El("table", <<>>, NoAttrs, <<>>,
          << El("caption", <<>>, NoAttrs, <<"T","1">>, <<>>),
             Row(<< Cell("th", <<"h">>), Cell("td", <<" ","1"," ">>) >>),
             Row(<<>>) >>) >>

\* a table in a cell of a table
BlockNested ==
    << El("table", <<>>, NoAttrs, <<>>,
          << Row(<< El("td", <<>>, NoAttrs, <<"o">>,
                       << El("table", <<>>, NoAttrs, <<>>,
                             << Row(<< Cell("td", <<"i">>) >>) >>) >>) >>) >>) >>

\* a table after a div.table-caption
BlockCaptioned ==
    << El("div", <<s_table_caption>>, NoAttrs, <<"T","C">>, <<>>),
       El("table", <<>>, NoAttrs, <<>>, << Row(<< Cell("td", <<"2">>) >>) >>) >>

\* a table before a p.caption in a div
BlockSection ==
    << El("div", << <<"s","e","c">> >>, NoAttrs, <<>>,
          << El("table", <<>>, NoAttrs, <<>>, << Row(<< Cell("td", <<"3">>) >>) >>),
             El("p", <<s_caption>>, NoAttrs, <<"P","C">>, <<>>) >>) >>

\* a standalone image with a relative address
BlockImgRelative ==
    << El("img", <<>>, Attr("src", <<"i","m","g","/","d",".","p","n","g">>)
                       @@ Attr("alt", <<"F","i","g"," ","1">>), <<>>, <<>>) >>

\* a standalone image with a root-relative address without extension
BlockImgRooted == << ImgSrc(<<"/","f","/","e">>) >>

\* a logo
BlockLogo == << ImgSrc(<<"/","l","o","g","o",".","p","n","g">>) >>

\* a standalone image with an absolute https address in upper case, and one
\* with a protocol-relative address
BlockImgSecure ==
    << ImgSrc(<<"H","T","T","P","S",":","/","/","x",".","o","r","g","/","c",".","p","n","g">>),
       ImgSrc(<<"/","/","c","d","n",".","x","/","b",".","j","p","g">>) >>

Blocks ==
    { BlockFigure, BlockFigureTag, BlockFigureOther, BlockFigBox, BlockFigEmpty,
      BlockTable,
      BlockNested, BlockCaptioned, BlockSection, BlockImgRelative,
      BlockImgRooted, BlockLogo, BlockImgSecure }

MaxBlocks == 2

Pages == { Soup(Flatten(bs)) : bs \in SeqsUpTo(Blocks, MaxBlocks) }

\* the answers to the page request: an exception of requests, an error status
\* (raise_for_status raises), or a page
PageResponses ==
    { [kind |-> "raise", doc |-> <<>>], [kind |-> "status", doc |-> <<>>] }
    \cup { [kind |-> "ok", doc |-> d] : d \in Pages }

PageUrl == <<"h","t","t","p",":","/","/","h","/","P","M","C","7","/">>

\* the addresses download_image can be called with on a page
DownloadUrls(d, base) ==
    { ResolveUrl(base, d[j].attrs["src"]) :
        j \in {k \in 1..Len(d) : d[k].tag = "img" /\ "src" \in DOMAIN d[k].attrs} }

\* the sets of addresses whose download fails: none or one of them
FailingSets(d, base) == {{}} \cup { {u} : u \in DownloadUrls(d, base) }

\* self.extracted_elements after the constructor
NoElements(url) ==
    [images |-> <<>>, tables |-> <<>>, figures |-> <<>>,
     metadata |-> [source_url |-> url, total_elements |-> 0]]

\* the state before an extractor is constructed
VisIdle ==
    /\ variant = "simple"
    /\ paperUrl = <<>>
    /\ pageResp = [kind |-> "raise", doc |-> <<>>]
    /\ dlFail = {}
    /\ soup = None
    /\ visPc = "idle"
    /\ sel = 1
    /\ idx = 1
    /\ acc = <<>>
    /\ extracted = NoElements(<<>>)
    /\ files = <<>>
    /\ downloads = <<>>
    /\ visRet = NotYet

\* an extractor constructed on url, about to run
VisConstructed(url) ==
    /\ paperUrl = url
    /\ soup = None
    /\ visPc = "fetch"
    /\ sel = 1
    /\ idx = 1
    /\ acc = <<>>
    /\ extracted = NoElements(url)
    /\ files = <<>>
    /\ downloads = <<>>
    /\ visRet = NotYet

VisInit ==
    /\ variant \in Variants
    /\ VisConstructed(PageUrl)
    /\ pageResp \in PageResponses
    /\ dlFail \in FailingSets(pageResp.doc, PageUrl)

-----------------------------------------------------------------------------
(* The visual extractor: extract_visual_elements / run_extraction *)

\* fetch_page_content, and the return of None when it gives no page
VisFetch ==
    /\ visPc = "fetch"
    /\ IF pageResp.kind = "ok"
       THEN /\ soup' = pageResp.doc
            /\ visPc' = "figures"
            /\ UNCHANGED visRet
       ELSE /\ soup' = None
            /\ visPc' = "returned"
            /\ visRet' = None
    /\ UNCHANGED <<variant, paperUrl, pageResp, dlFail, sel, idx, acc, extracted,
                   files, downloads, visFrame>>

\* extract_figures: the body of the inner loop for one match of one selector
FigStep ==
    /\ visPc = "figures"
    /\ sel <= Len(figure_selectors)
    /\ LET figure_elements == Select(soup, 0, figure_selectors[sel])
       IN /\ idx <= Len(figure_elements)
          /\ LET fig == figure_elements[idx]
                 figure_data == FigureData(variant, soup, paperUrl, fig, idx, dlFail)
                 src == FigureImgUrl(soup, fig)
             IN /\ acc' = IF FigureKept(figure_data)
                          THEN Append(acc, figure_data) ELSE acc
                /\ files' = IF src = None THEN files
                            ELSE FilesAfterDownload(files, figure_data.image_url,
                                     <<"f","i","g","u","r","e","_">> \o Ordinal(idx),
                                     dlFail)
                /\ downloads' = IF src = None THEN downloads
                                ELSE Append(downloads,
                                       [url |-> figure_data.image_url,
                                        filename |-> <<"f","i","g","u","r","e","_">>
                                                       \o Ordinal(idx)])
    /\ idx' = idx + 1
    /\ UNCHANGED <<variant, paperUrl, pageResp, dlFail, soup, visPc, sel,
                   extracted, visRet, visFrame>>

\* extract_figures: the matches of a selector are exhausted, the next one
FigNextSelector ==
    /\ visPc = "figures"
    /\ sel <= Len(figure_selectors)
    /\ idx > Len(Select(soup, 0, figure_selectors[sel]))
    /\ sel' = sel + 1
    /\ idx' = 1
    /\ UNCHANGED <<variant, paperUrl, pageResp, dlFail, soup, visPc, acc,
                   extracted, files, downloads, visRet, visFrame>>

\* self.extracted_elements['figures'] = self.extract_figures(soup)
FigReturn ==
    /\ visPc = "figures"
    /\ sel > Len(figure_selectors)
    /\ extracted' = [extracted EXCEPT !.figures = acc]
    /\ acc' = <<>>
    /\ idx' = 1
    /\ visPc' = "tables"
    /\ UNCHANGED <<variant, paperUrl, pageResp, dlFail, soup, sel, files, downloads, visRet,
                   visFrame>>

\* extract_tables: the body of the loop for one table
TableStep ==
    /\ visPc = "tables"
    /\ idx <= Len(TableElements(soup))
    /\ LET table == TableElements(soup)[idx]
           table_data == TableData(variant, soup, table, idx)
           path == TablePath(idx)
       IN /\ acc' = Append(acc, table_data)
          /\ files' = [p \in DOMAIN files \cup {path} |->
                         IF p = path THEN [html |-> Subtree(soup, table)]
                         ELSE files[p]]
    /\ idx' = idx + 1
    /\ UNCHANGED <<variant, paperUrl, pageResp, dlFail, soup, visPc, sel,
                   extracted, downloads, visRet, visFrame>>

\* self.extracted_elements['tables'] = self.extract_tables(soup)
TablesReturn ==
    /\ visPc = "tables"
    /\ idx > Len(TableElements(soup))
    /\ extracted' = [extracted EXCEPT !.tables = acc]
    /\ acc' = <<>>
    /\ idx' = 1
    /\ visPc' = "images"
    /\ UNCHANGED <<variant, paperUrl, pageResp, dlFail, soup, sel, files, downloads, visRet,
                   visFrame>>

\* extract_images: the body of the loop for one img
ImageStep ==
    /\ visPc = "images"
    /\ idx <= Len(FindAll(soup, 0, {"img"}))
    /\ LET img == FindAll(soup, 0, {"img"})[idx]
       IN IF ImageSkipped(variant, soup, img)
          THEN UNCHANGED <<acc, files, downloads>>
          ELSE LET img_data == ImageData(variant, soup, paperUrl, img, Len(acc), dlFail)
               IN /\ acc' = Append(acc, img_data)
                  /\ files' = FilesAfterDownload(files, img_data.image_url,
                                  <<"i","m","a","g","e","_">> \o Ordinal(Len(acc) + 1),
                                  dlFail)
                  /\ downloads' = Append(downloads,
                                     [url |-> img_data.image_url,
                                      filename |-> <<"i","m","a","g","e","_">>
                                                     \o Ordinal(Len(acc) + 1)])
    /\ idx' = idx + 1
    /\ UNCHANGED <<variant, paperUrl, pageResp, dlFail, soup, visPc, sel,
                   extracted, visRet, visFrame>>

\* self.extracted_elements['images'] = self.extract_images(soup)
ImagesReturn ==
    /\ visPc = "images"
    /\ idx > Len(FindAll(soup, 0, {"img"}))
    /\ extracted' = [extracted EXCEPT !.images = acc]
    /\ acc' = <<>>
    /\ idx' = 1
    /\ visPc' = "total"
    /\ UNCHANGED <<variant, paperUrl, pageResp, dlFail, soup, sel, files, downloads, visRet,
                   visFrame>>

MetadataJson ==
    <<"v","i","s","u","a","l","_","e","l","e","m","e","n","t","s","_",
      "m","e","t","a","d","a","t","a",".","j","s","o","n">>

\* the total count is updated (in the full variant by save_json_metadata,
\* which also writes the JSON file) and the elements are returned
VisReturn ==
    /\ visPc = "total"
    /\ LET updated == [extracted EXCEPT
                         !.metadata.total_elements = TotalElements(extracted)]
       IN /\ extracted' = updated
          /\ visRet' = updated
          /\ files' = IF variant = "full"
                      THEN [p \in DOMAIN files \cup {MetadataJson} |->
                              IF p = MetadataJson THEN [json |-> updated]
                              ELSE files[p]]
                      ELSE files
    /\ visPc' = "returned"
    /\ UNCHANGED <<variant, paperUrl, pageResp, dlFail, soup, sel, idx, acc,
                   downloads, visFrame>>

VisNext ==
    \/ VisFetch
    \/ FigStep \/ FigNextSelector \/ FigReturn
    \/ TableStep \/ TablesReturn
    \/ ImageStep \/ ImagesReturn
    \/ VisReturn

-----------------------------------------------------------------------------
(* The orchestrator: paper_extractor.main *)

\* True and False
PyBool(b) == [t |-> "bool", b |-> b]

\* the state when paper_extractor is not run
MainIdle ==
    /\ argsUrl = <<>>
    /\ mainPc = "idle"
    /\ metadata = None
    /\ mainRet = NotYet
    /\ jsonFile = None
    /\ exitStatus = None

\* extract_paper_metadata after get_pmcid_from_url: the record without
\* identifier, or the call of fetch_metadata_pmc
EpmAfterResolve ==
    /\ mainPc = "metadata"
    /\ idPc = "done"
    /\ IF ~Truthy(pmcidOut)
       THEN /\ metadata' = Dict(
                   Field("error", Str(<<"N","o"," ","P","M","C","I","D"," ",
                                        "f","o","u","n","d"," ","i","n"," ",
                                        "U","R","L">>))
                   @@ Field("url", Str(argsUrl)))
            /\ mainPc' = "print"
            /\ UNCHANGED <<pmcid, metaPc, meta>>
       ELSE /\ pmcid' = pmcidOut
            /\ metaPc' = "summary"
            /\ meta' = Dict(Field("pmcid", pmcidOut))
            /\ mainPc' = "fetching"
            /\ UNCHANGED metadata
    /\ UNCHANGED <<idVars, sumResp, efResp, result, doi, requests, metaRet,
                   filterVars, batchVars, visVars, argsUrl, mainRet, jsonFile, exitStatus>>

\* metadata["url"] = url; return metadata
EpmReturn ==
    /\ mainPc = "fetching"
    /\ metaPc = "returned"
    /\ metadata' = Dict(Field("url", Str(argsUrl)) @@ metaRet.d)
    /\ mainPc' = "print"
    /\ UNCHANGED <<idVars, metaVars, filterVars, batchVars, visVars, argsUrl, mainRet, jsonFile,
                   exitStatus>>

\* metadata.get('title', 'N/A')[:60] raises TypeError: the title is no string
TitleSliceRaises(md) ==
    /\ "error" \notin DOMAIN md.d
    /\ "title" \in DOMAIN md.d
    /\ md.d["title"].t # "str"

\* the report on the metadata, then the construction of the extractor; an
\* exception of the report leaves main
MainPrint ==
    /\ mainPc = "print"
    /\ IF TitleSliceRaises(metadata)
       THEN /\ mainRet' = Raised
            /\ mainPc' = "left"
            /\ UNCHANGED <<paperUrl, visPc, extracted>>
       ELSE /\ paperUrl' = argsUrl
            /\ visPc' = "fetch"
            /\ extracted' = NoElements(argsUrl)
            /\ mainPc' = "visual"
            /\ UNCHANGED mainRet
    /\ UNCHANGED <<idVars, metaVars, filterVars, batchVars, variant, pageResp, dlFail, soup,
                   sel, idx, acc, files, downloads, visRet, argsUrl, metadata, jsonFile,
                   exitStatus>>

\* combined_result
CombinedResult(u, md, visual_elements) ==
    [extraction_info |-> [url |-> u],
     metadata |-> md,
     visual_elements |-> visual_elements]

\* if not visual_elements: return False; else the combined result is written
\* to paper_data.json and main returns True
MainAfterVisual ==
    /\ mainPc = "visual"
    /\ visPc = "returned"
    /\ IF visRet = None
       THEN /\ mainRet' = PyBool(FALSE)
            /\ UNCHANGED jsonFile
       ELSE /\ jsonFile' = CombinedResult(argsUrl, metadata, visRet)
            /\ mainRet' = PyBool(TRUE)
    /\ mainPc' = "left"
    /\ UNCHANGED <<idVars, metaVars, filterVars, batchVars, visVars, argsUrl, metadata,
                   exitStatus>>

\* sys.exit(0 if success else 1); an uncaught exception ends the process
\* with status 1
ExitStatus(ret) == IF ret = PyBool(TRUE) THEN 0 ELSE 1

MainExit ==
    /\ mainPc = "left"
    /\ exitStatus' = ExitStatus(mainRet)
    /\ mainPc' = "exited"
    /\ UNCHANGED <<idVars, metaVars, filterVars, batchVars, visVars, argsUrl, metadata, mainRet,
                   jsonFile>>

MainNext ==
    \/ Resolve
    \/ EpmAfterResolve
    \/ MSummary \/ MStageA \/ MStageB \/ MStageC \/ MReturn
    \/ EpmReturn
    \/ MainPrint
    \/ VisFetch
    \/ FigStep \/ FigNextSelector \/ FigReturn
    \/ TableStep \/ TablesReturn
    \/ ImageStep \/ ImagesReturn
    \/ VisReturn
    \/ MainAfterVisual
    \/ MainExit

\* the addresses paper_extractor is run on: with and without an identifier,
\* and one that is no http address
MainUrls ==
    { PageUrl,
      <<"h","t","t","p",":","/","/","h","/","x">>,
      <<"P","M","C","7">> }

\* the summary records of these runs
MainRecords ==
    SummaryRecords(Bibs,
        { <<>>, Field("elocationid", Str(<<"d","o","i",":","1","0",".","1","/","a">>)) },
        { <<>>, Field("articleids", List(<< Str(<<" ","d","o","i",":","x"," ">>) >>)) })

\* the pages of these runs
MainPages ==
    { Soup(<<>>), Soup(BlockTable), Soup(BlockFigure \o BlockImgRooted) }

\* the answers to the page request: a page only at an http address
MainPageResponses(u) ==
    { [kind |-> "raise", doc |-> <<>>] }
    \cup (IF HasHttpScheme(u)
          THEN { [kind |-> "status", doc |-> <<>>] }
               \cup { [kind |-> "ok", doc |-> d] : d \in MainPages }
          ELSE {})

\* main after the arguments are parsed, with the answers the requests of the
\* run will get
MainInit ==
    /\ argsUrl \in MainUrls
    /\ mainPc = "metadata"
    /\ metadata = None
    /\ mainRet = NotYet
    /\ jsonFile = None
    /\ exitStatus = None
    /\ link = Str(argsUrl)
    /\ pmcidOut = None
    /\ idPc = "start"
    /\ pmcid = None
    /\ sumResp \in SummaryResponses(Str(<<"7">>), MainRecords)
    /\ efResp \in EfetchResponses
    /\ metaPc = "idle"
    /\ result = None
    /\ meta = None
    /\ doi = None
    /\ requests = <<>>
    /\ metaRet = NotYet
    /\ variant = "simple"
    /\ paperUrl = <<>>
    /\ pageResp \in MainPageResponses(argsUrl)
    /\ dlFail \in FailingSets(pageResp.doc, argsUrl)
    /\ soup = None
    /\ visPc = "idle"
    /\ sel = 1
    /\ idx = 1
    /\ acc = <<>>
    /\ extracted = NoElements(<<>>)
    /\ files = <<>>
    /\ downloads = <<>>
    /\ visRet = NotYet

-----------------------------------------------------------------------------
(* The batch loop of help2.py *)

\* PROCESS_LIMIT
PROCESS_LIMIT == 5

\* the number of rows of df is at most MaxRows
MaxRows == 6

\* the rows of df: a row with an identifier in Link, a row without Link whose
\* URL holds no identifier, a row whose Link is a number
BatchRows ==
    { Field("Title", Str(<<"P">>))
        @@ Field("Link", Str(<<"h","/","P","M","C","7">>)),
      Field("Title", Str(<<"Q">>)) @@ Field("URL", Str(<<"a">>)),
      Field("Link", PyInt(4136787)) }

\* row.get(k) and row.get(k, default)
RowGet(row, k, default) == IF k \in DOMAIN row THEN row[k] ELSE default

\* link = row.get("Link") or row.get("URL") or ""
RowLink(row) ==
    Or(Or(RowGet(row, "Link", None), RowGet(row, "URL", None)), EmptyStr)

\* record = {"original_title": ..., "url": link, "pmcid": pmcid}
NewRecord(row) ==
    Dict(Field("original_title", RowGet(row, "Title", EmptyStr))
         @@ Field("url", RowLink(row))
         @@ Field("pmcid", get_pmcid_from_url(RowLink(row))))

\* record["error"] = "No PMCID found in link"
WithoutNoIdError(rec) == rec

WithNoIdError(rec) ==
    Dict(Field("error", Str(<<"N","o"," ","P","M","C","I","D"," ","f","o","u","n","d",
                              " ","i","n"," ","l","i","n","k">>)) @@ rec.d)

\* record.update(meta)
Updated(rec, m) == Dict(m.d @@ rec.d)

\* the answers the requests of one row get
BatchSummaryResponses ==
    { [kind |-> "raise", body |-> None] }
    \cup { [kind |-> "json",
            body |-> Dict(Field("result", Dict(Field(<<"7">>, r))))] :
           r \in { Dict(BibFull @@ Field("elocationid",
                            Str(<<"d","o","i",":","1","0",".","1","/","a">>))),
                   Dict(BibEmpty) } }

BatchEfetchResponses == { [kind |-> "notok", xml |-> NoXml] }

\* the state when help2.py is not run
BatchIdle ==
    /\ df = <<>>
    /\ rowsRead = 0
    /\ count = 0
    /\ metadata_list = <<>>
    /\ record = None
    /\ batchPc = "idle"

\* metadata_list = []; count = 0, before the loop over the rows of df
BatchInit ==
    /\ df \in SeqsUpTo(BatchRows, MaxRows)
    /\ rowsRead = 0
    /\ count = 0
    /\ metadata_list = <<>>
    /\ record = None
    /\ batchPc = "loop"
    /\ MetaIdle

\* the loop ends: df has no more rows, or count has reached PROCESS_LIMIT
BatchEnd ==
    /\ batchPc = "loop"
    /\ rowsRead = Len(df) \/ count >= PROCESS_LIMIT
    /\ batchPc' = "done"
    /\ UNCHANGED <<df, rowsRead, count, metadata_list, record, metaVars, batchFrame>>

\* the next row: without identifier its record is appended with the error;
\* with one, fetch_metadata_pmc(pmcid) is called
BatchRow ==
    /\ batchPc = "loop"
    /\ rowsRead < Len(df)
    /\ count < PROCESS_LIMIT
    /\ rowsRead' = rowsRead + 1
    /\ LET row == df[rowsRead + 1]
       IN
         IF ~Truthy(get_pmcid_from_url(RowLink(row)))
         THEN /\ metadata_list' = Append(metadata_list, WithNoIdError(NewRecord(row)))
              /\ count' = count + 1
              /\ UNCHANGED <<record, batchPc, metaVars>>
         ELSE /\ record' = NewRecord(row)
              /\ batchPc' = "fetching"
              /\ pmcid' = get_pmcid_from_url(RowLink(row))
              /\ metaPc' = "summary"
              /\ result' = None
              /\ meta' = Dict(Field("pmcid", get_pmcid_from_url(RowLink(row))))
              /\ doi' = None
              /\ metaRet' = NotYet
              /\ sumResp' \in BatchSummaryResponses
              /\ efResp' \in BatchEfetchResponses
              /\ UNCHANGED <<requests, metadata_list, count>>
    /\ UNCHANGED <<df, batchFrame>>

\* record.update(meta); metadata_list.append(record); count += 1
BatchAppend ==
    /\ batchPc = "fetching"
    /\ metaPc = "returned"
    /\ metadata_list' = Append(metadata_list, Updated(record, metaRet))
    /\ count' = count + 1
    /\ record' = None
    /\ batchPc' = "loop"
    /\ UNCHANGED <<df, rowsRead, metaVars, batchFrame>>

BatchNext ==
    \/ BatchRow
    \/ MSummary \/ MStageA \/ MStageB \/ MStageC \/ MReturn
    \/ BatchAppend
    \/ BatchEnd

-----------------------------------------------------------------------------
(* Specifications *)

IdIdle ==
    /\ link = None
    /\ pmcidOut = None
    /\ idPc = "idle"

\* get_pmcid_from_url alone
InitId == IdInit /\ MetaIdle /\ FilterIdle /\ VisIdle /\ MainIdle /\ BatchIdle
SpecId == InitId /\ [][IdNext]_vars

\* fetch_metadata_pmc alone
InitMeta == MetaInit /\ IdIdle /\ FilterIdle /\ VisIdle /\ MainIdle /\ BatchIdle
SpecMeta == InitMeta /\ [][MetaNext]_vars

\* _should_skip_image alone
InitFilter == FilterInit /\ IdIdle /\ MetaIdle /\ VisIdle /\ MainIdle /\ BatchIdle
SpecFilter == InitFilter /\ [][FilterNext]_vars

\* the visual extractor alone, in either variant
InitVis == VisInit /\ IdIdle /\ MetaIdle /\ FilterIdle /\ MainIdle /\ BatchIdle
SpecVis == InitVis /\ [][VisNext]_vars

\* a run of paper_extractor
InitMain == MainInit /\ FilterIdle /\ BatchIdle
SpecMain == InitMain /\ [][MainNext]_vars

\* the batch loop of help2.py
InitBatch == BatchInit /\ IdIdle /\ FilterIdle /\ VisIdle /\ MainIdle
SpecBatch == InitBatch /\ [][BatchNext]_vars

-----------------------------------------------------------------------------
(* Claims *)
\* the positions of s at which the prefix (in any case) is followed by a digit
Occurrences(s) ==
    { i \in 1..Len(s) :
        /\ i + 3 <= Len(s)
        /\ Lower(SubSeq(s, i, i + 2)) = <<"p","m","c">>
        /\ s[i + 3] \in Digits }

FirstOccurrence(s) ==
    CHOOSE i \in Occurrences(s) : \A j \in Occurrences(s) : i <= j

\* r is the maximal run of digits of s that starts at position j
IsDigitRunAt(s, j, r) ==
    /\ Len(r) >= 1
    /\ j + Len(r) - 1 <= Len(s)
    /\ r = SubSeq(s, j, j + Len(r) - 1)
    /\ \A k \in 1..Len(r) : r[k] \in Digits
    /\ (j + Len(r) <= Len(s) => s[j + Len(r)] \notin Digits)

\* C1: for a string holding the prefix PMC (any case) directly followed by
\* digits the resolver returns exactly the digit run of the first such
\* occurrence; for every other input (no occurrence, or not a string) it
\* returns None.
C1_ResolverReturnsFirstDigitRun ==
    idPc = "done" =>
        IF link.t = "str" /\ Occurrences(link.s) # {}
        THEN /\ pmcidOut.t = "str"
             /\ IsDigitRunAt(link.s, FirstOccurrence(link.s) + 3, pmcidOut.s)
        ELSE pmcidOut = None

\* C1 witness: a reference with two occurrences, the first in mixed case,
\* has been resolved
C1_Witness ==
    /\ idPc = "done"
    /\ link.t = "str"
    /\ Cardinality(Occurrences(link.s)) >= 2
    /\ link.s[FirstOccurrence(link.s)] = "p"
    /\ pmcidOut = Str(<<"1","2">>)

-----------------------------------------------------------------------------
(* Claims about fetch_metadata_pmc, stated on the responses and the record *)

\* the summary request answered with a body that holds a result object
SummaryOk ==
    /\ sumResp.kind = "json"
    /\ sumResp.body.t = "dict"
    /\ ("result" \in DOMAIN sumResp.body.d => sumResp.body.d["result"].t = "dict")

HasKey(rec, k) == rec.t = "dict" /\ k \in DOMAIN rec.d

\* v is s without its leading and trailing whitespace
IsStripped(v, s) ==
    \E i \in 1..(Len(s) + 1), j \in 0..Len(s) :
        /\ v = SubSeq(s, i, j)
        /\ \A k \in 1..(i - 1) : s[k] \in Whitespace
        /\ \A k \in (j + 1)..Len(s) : s[k] \in Whitespace
        /\ (v # <<>> => v[1] \notin Whitespace /\ v[Len(v)] \notin Whitespace)

\* stage (a) matches: elocationid is a string that contains "doi" in any case
EloMatches(rec) ==
    /\ HasKey(rec, "elocationid")
    /\ rec.d["elocationid"].t = "str"
    /\ \E i \in 1..Len(rec.d["elocationid"].s) :
         i + 2 <= Len(rec.d["elocationid"].s)
         /\ Lower(SubSeq(rec.d["elocationid"].s, i, i + 2)) = s_doi

NonEmptyStr(v) == v.t = "str" /\ v.s # <<>>

\* the value of a structured articleids entry: its id, else its value
EntryValue(aid) ==
    IF HasKey(aid, "id") /\ NonEmptyStr(aid.d["id"]) THEN aid.d["id"]
    ELSE IF HasKey(aid, "value") /\ NonEmptyStr(aid.d["value"]) THEN aid.d["value"]
    ELSE EmptyStr

LooksLikeDoi(str) == Contains(str, s_doi_org) \/ StartsWith(str, s_ten_dot)

\* stage (b) accepts the entry
EntryAccepted(aid) ==
    CASE aid.t = "dict" ->
           \/ /\ HasKey(aid, "idtype")
              /\ aid.d["idtype"].t = "str"
              /\ Contains(Lower(aid.d["idtype"].s), s_doi)
              /\ EntryValue(aid) # EmptyStr
           \/ LooksLikeDoi(EntryValue(aid).s)
      [] aid.t = "str" ->
           \/ Contains(Lower(aid.s), s_doi)
           \/ \E v \in {SubSeq(aid.s, i, Len(aid.s)) : i \in 1..(Len(aid.s) + 1)} :
                IsStripped(v, aid.s) /\ StartsWith(v, s_ten_dot)
      [] OTHER -> FALSE

\* the doi an accepted entry yields: its value, a bare string without its
\* surrounding whitespace
EntryYields(aid, v) ==
    IF aid.t = "dict" THEN v = EntryValue(aid)
    ELSE v.t = "str" /\ IsStripped(v.s, aid.s)

\* the entries of articleids, when it is a list
ArticleIdList(rec) ==
    IF HasKey(rec, "articleids") /\ rec.d["articleids"].t = "list"
    THEN rec.d["articleids"].l ELSE <<>>

AcceptedEntries(rec) ==
    {i \in 1..Len(ArticleIdList(rec)) : EntryAccepted(ArticleIdList(rec)[i])}

FirstAccepted(rec) ==
    CHOOSE i \in AcceptedEntries(rec) : \A j \in AcceptedEntries(rec) : i <= j

\* stage (c) would resolve a doi from the document
XmlResolves(xml) ==
    LET doiTags == {i \in 1..Len(xml.articleIds) :
                      Contains(Lower(xml.articleIds[i].type), s_doi)}
        firstTag == CHOOSE i \in doiTags : \A j \in doiTags : i <= j
        tagHit == doiTags # {}
                  /\ \E k \in 1..Len(xml.articleIds[firstTag].text) :
                       xml.articleIds[firstTag].text[k] \notin Whitespace
        links == {i \in 1..Len(xml.extLinks) :
                    Contains(xml.extLinks[i].s, s_doi_org)}
        firstLink == xml.extLinks[CHOOSE i \in links : \A j \in links : i <= j].s
    IN tagHit \/ (links # {} /\ ~EndsWith(firstLink, s_doi_org_slash))

NoStageResolves ==
    /\ ~EloMatches(result)
    /\ AcceptedEntries(result) = {}
    /\ (efResp.kind # "ok" \/ ~XmlResolves(efResp.xml))

EfetchIssued == \E i \in 1..Len(requests) : requests[i] = "efetch"

IsErrorRecord(rec) == rec.t = "dict" /\ DOMAIN rec.d = {"pmcid", "error"}

C3_CascadePriority ==
    metaPc = "returned" /\ SummaryOk =>
        /\ EloMatches(result) =>
             /\ HasKey(metaRet, "doi")
             /\ metaRet.d["doi"].t = "str"
             /\ IsStripped(metaRet.d["doi"].s, result.d["elocationid"].s)
        /\ ~EloMatches(result) /\ AcceptedEntries(result) # {} =>
             /\ HasKey(metaRet, "doi")
             /\ EntryYields(ArticleIdList(result)[FirstAccepted(result)],
                            metaRet.d["doi"])

\* C3 witness: stage (a) matched while an articleids entry and the document
\* each held another doi
C3_Witness ==
    /\ metaPc = "returned"
    /\ SummaryOk
    /\ EloMatches(result)
    /\ AcceptedEntries(result) # {}
    /\ efResp.kind = "ok" /\ XmlResolves(efResp.xml)
    /\ metaRet.d["doi"] = Str(<<"D","O","I"," ","1","0",".","1","/","A">>)

\* C4: the efetch request is issued at most once, only after the summary
\* request succeeded, and only when neither stage (a) nor stage (b) produced
\* a doi; when one of them did, the call returns without any efetch request.
C4_EfetchOnlyWhenUnresolved ==
    /\ Cardinality({i \in 1..Len(requests) : requests[i] = "efetch"}) <= 1
    /\ EfetchIssued =>
         /\ requests = <<"esummary", "efetch">>
         /\ SummaryOk
         /\ ~EloMatches(result)
         /\ AcceptedEntries(result) = {}
    /\ metaPc = "returned" /\ SummaryOk
         /\ (EloMatches(result) \/ AcceptedEntries(result) # {})
         => ~EfetchIssued

\* C4 witness: a call that issued the efetch request and returned its doi
C4_Witness ==
    /\ metaPc = "returned"
    /\ requests = <<"esummary", "efetch">>
    /\ HasKey(metaRet, "doi")
    /\ metaRet.d["doi"] = Str(<<"1","0",".","8","/","h">>)

\* C5: when the summary request fails (the request raises, the status is an
\* error, the body does not parse or holds no result object), the call returns
\* (nothing is raised) a record with exactly the fields pmcid and error.
C5_SummaryFailureGivesErrorRecord ==
    metaPc = "returned" /\ ~SummaryOk =>
        /\ metaRet # Raised
        /\ metaRet.t = "dict"
        /\ DOMAIN metaRet.d = {"pmcid", "error"}
        /\ metaRet.d["pmcid"] = pmcid
        /\ requests = <<"esummary">>

\* C5 witness: the body of the summary response did not parse
C5_Witness ==
    /\ metaPc = "returned"
    /\ sumResp.kind = "badjson"
    /\ IsErrorRecord(metaRet)

\* stage (b) accepts the entry, a bare string under the value test of a
\* structured entry: its text contains "doi.org" or starts with "10."
EntryAcceptedByValueTest(aid) ==
    IF aid.t = "str" THEN LooksLikeDoi(aid.s) ELSE EntryAccepted(aid)

ValueTestEntries(rec) ==
    {i \in 1..Len(ArticleIdList(rec)) :
        EntryAcceptedByValueTest(ArticleIdList(rec)[i])}

\* stage (b) has run on a record that stage (a) did not match
StageBRan == metaPc = "stageC" /\ ~EloMatches(result)

\* C17 as stated: stage (b) yields the value of the first entry of articleids
\* that has a type containing "doi" in any case and a non-empty value, or a
\* value that contains "doi.org" or starts with "10."; a bare string is
\* accepted when its own text contains "doi.org" or starts with "10." and
\* under no other condition; without such an entry stage (b) yields nothing.
C17_BareStringUnderValueTestOnly ==
    StageBRan =>
        IF ValueTestEntries(result) # {}
        THEN EntryYields(ArticleIdList(result)[
                 CHOOSE i \in ValueTestEntries(result) :
                     \A j \in ValueTestEntries(result) : i <= j], doi)
        ELSE doi = None

\* C17 amended: as stated for structured entries; a bare string is accepted
\* when its text contains "doi" in any case, or starts with "10." once its
\* surrounding whitespace is removed, and yields its text without that
\* whitespace; without an accepted entry stage (b) yields nothing.
C17_BareStringContainingDoi ==
    StageBRan =>
        IF AcceptedEntries(result) # {}
        THEN EntryYields(ArticleIdList(result)[FirstAccepted(result)], doi)
        ELSE doi = None

\* C17 witness: stage (b) passed over a structured entry of another type and
\* accepted a bare string that holds "doi" but neither "doi.org" nor "10."
C17_Witness ==
    /\ StageBRan
    /\ ArticleIdList(result) =
          << Dict(Field("idtype", Str(<<"p","m","i","d">>))
                    @@ Field("id", Str(<<"1","2","3">>))),
             Str(<<" ","d","o","i",":","x"," ">>) >>
    /\ doi = Str(<<"d","o","i",":","x">>)

\* the field of the record as stage 1 reads it from the summary: the value
\* under the key, the sentinel when the key is absent
FromSummary(rec, k) == IF HasKey(rec, k) THEN rec.d[k] ELSE NA

\* C18: when the summary request succeeded and no stage of the cascade yields
\* a doi -- the secondary request answering with an error status, timing out
\* or raising included -- the record returned carries the title, journal,
\* pubdate and authors obtained from the summary, doi = "N/A" and no error.
C18_UnresolvedDoiIsSoftFailure ==
    metaPc = "returned" /\ SummaryOk /\ NoStageResolves =>
        /\ metaRet.t = "dict"
        /\ {"title", "journal", "pubdate", "authors", "doi"} \subseteq DOMAIN metaRet.d
        /\ "error" \notin DOMAIN metaRet.d
        /\ metaRet.d["title"] = FromSummary(result, "title")
        /\ metaRet.d["journal"] = FromSummary(result, "fulljournalname")
        /\ metaRet.d["pubdate"] = FromSummary(result, "pubdate")
        /\ metaRet.d["authors"] = meta.d["authors"]
        /\ metaRet.d["doi"] = NA

-----------------------------------------------------------------------------
(* Claims on the orchestrator *)

\* the process of paper_extractor has ended
MainExited == mainPc = "exited"

\* the page request of the run is answered with a failure
PageFetchFails == pageResp.kind # "ok"

\* paper_data.json holds the merged result: the metadata record of the run
\* and the visual elements given
Persisted(visual_elements) ==
    /\ jsonFile # None
    /\ jsonFile.metadata = metadata
    /\ jsonFile.visual_elements = visual_elements

\* C6: when the page fetch fails, a run of paper_extractor.main still ends
\* with the merged result written to the output JSON, holding the metadata
\* record already resolved and an empty visual result set; every run,
\* whichever branch fails, ends with a written result, nothing is discarded.
C6_EveryRunPersists ==
    MainExited =>
        /\ jsonFile # None
        /\ jsonFile.metadata = metadata
        /\ PageFetchFails => Persisted(NoElements(argsUrl))

\* C7: the process exits with 1 if and only if the page fetch failed, the
\* visual branch returning no result object; every other run exits with 0,
\* also when no identifier is found or the metadata record carries an error.
C7_ExitOneIffNoVisualResult ==
    MainExited =>
        /\ exitStatus = 1 <=> PageFetchFails
        /\ exitStatus = 0 <=> ~PageFetchFails

\* C14: no failure escapes the orchestrator: whatever the outcomes of the
\* identifier resolution, the summary request, the XML request, the page
\* fetch and the downloads, main ends by returning True or False and no
\* exception leaves it.
C14_NoExceptionLeavesMain ==
    /\ mainRet # Raised
    /\ MainExited => mainRet \in {PyBool(TRUE), PyBool(FALSE)}

-----------------------------------------------------------------------------
(* Claims on the batch loop *)

\* the row holds an identifier
HasIdentifier(row) == get_pmcid_from_url(RowLink(row)) # None

\* the rows with an identifier among the first n rows
IdentifiedAmong(n) == { k \in 1..n : HasIdentifier(df[k]) }

\* the summary requests sent so far
SummaryRequests == { k \in 1..Len(requests) : requests[k] = "esummary" }

Min(a, b) == IF a <= b THEN a ELSE b

\* a row is left to read below the limit
RowLeft == rowsRead < Len(df) /\ count < PROCESS_LIMIT

\* a step of fetch_metadata_pmc after the summary request, or the append
AfterSummary == MStageA \/ MStageB \/ MStageC \/ MReturn \/ BatchAppend

\* the loop is never stuck: at its head it reads the next row or ends; inside
\* the call of fetch_metadata_pmc the summary request is due or a later step
\* is possible, the append of the record once the call has returned a record
LoopAdvances ==
    /\ batchPc = "loop" => RowLeft \/ ENABLED BatchEnd
    /\ batchPc = "fetching" =>
         /\ metaPc = "summary" \/ ENABLED AfterSummary
         /\ metaPc = "returned" => metaRet.t = "dict" /\ ENABLED BatchAppend

\* C15: the rows are processed in order; each processed row appends exactly
\* one record, whatever its outcome; a row without identifier gets a record
\* with the original reference and an error and triggers no request; the
\* loop always advances, and it ends with min(PROCESS_LIMIT, number of rows)
\* records.
C15_BatchOneRecordPerRow ==
    LET identified == IdentifiedAmong(rowsRead)
    IN /\ count = Len(metadata_list)
       /\ rowsRead = Len(metadata_list) + (IF batchPc = "fetching" THEN 1 ELSE 0)
       /\ \A k \in 1..Len(metadata_list) :
            /\ metadata_list[k].d["url"] = RowLink(df[k])
            /\ k \notin identified =>
                 /\ "error" \in DOMAIN metadata_list[k].d
                 /\ metadata_list[k].d["pmcid"] = None
       /\ Cardinality(SummaryRequests) <= Cardinality(identified)
       /\ batchPc \in {"loop", "done"} =>
            Cardinality(SummaryRequests) = Cardinality(identified)
       /\ LoopAdvances
       /\ batchPc = "done" => Len(metadata_list) = Min(PROCESS_LIMIT, Len(df))

\* the loop has ended at the limit, with rows left, after a row without
\* identifier, a row whose summary request failed and a row with metadata
C15_Witness ==
    /\ batchPc = "done"
    /\ Len(df) > PROCESS_LIMIT
    /\ Len(metadata_list) = PROCESS_LIMIT
    /\ \E k \in 1..Len(metadata_list) : ~HasIdentifier(df[k])
    /\ \E k \in 1..Len(metadata_list) :
         HasIdentifier(df[k]) /\ "error" \in DOMAIN metadata_list[k].d
    /\ \E k \in 1..Len(metadata_list) : "title" \in DOMAIN metadata_list[k].d

-----------------------------------------------------------------------------
(* Claims on the visual extractor *)

\* the elements of a page with a tag, in document order
NodesWithTag(d, tag) == Ascending({j \in 1..Len(d) : d[j].tag = tag})

\* a figure container: a figure element, or a div whose class holds "fig" or
\* that carries data-fig
IsFigureContainer(d, j) ==
    \/ d[j].tag = "figure"
    \/ /\ d[j].tag = "div"
       /\ \/ \E c \in 1..Len(d[j].cls) : Contains(d[j].cls[c], s_fig)
          \/ "data-fig" \in DOMAIN d[j].attrs

VisReturnedElements == visPc = "returned" /\ visRet # None

\* C8: in the result returned by extract_visual_elements (simple variant)
\* and by run_extraction (full variant), total_elements equals
\* len(figures) + len(tables) + len(images); a page with three table nodes
\* and no figure containers yields three tables, no figures and a total of at
\* least three.
C8_TotalIsSumOfLengths ==
    VisReturnedElements =>
        /\ visRet.metadata.total_elements
             = Len(visRet.figures) + Len(visRet.tables) + Len(visRet.images)
        /\ ( /\ Len(NodesWithTag(soup, "table")) = 3
             /\ \A j \in 1..Len(soup) : ~IsFigureContainer(soup, j) )
           => /\ Len(visRet.tables) = 3
              /\ Len(visRet.figures) = 0
              /\ visRet.metadata.total_elements >= 3

\* the full variant has returned the elements of a page with three tables and
\* no figure containers
C8_Witness ==
    /\ VisReturnedElements
    /\ variant = "full"
    /\ Len(NodesWithTag(soup, "table")) = 3
    /\ \A j \in 1..Len(soup) : ~IsFigureContainer(soup, j)
    /\ visRet.metadata.total_elements = 3

\* a is an element above i
Encloses(d, a, i) ==
    LET above == Parents(d, i)
    IN \E k \in 1..Len(above) : above[k] = a

\* the cells of a row: the td and th elements below it
CellsOf(d, row) ==
    Ascending({c \in (row + 1)..Len(d) : d[c].tag \in {"td", "th"} /\ Encloses(d, row, c)})

\* the rows of a table that have a cell: the tr elements below it, in
\* document order
RowsWithCells(d, table) ==
    Ascending({r \in (table + 1)..Len(d) :
        d[r].tag = "tr" /\ Encloses(d, table, r) /\ CellsOf(d, r) # <<>>})

\* extract_tables has returned
TablesExtracted == visPc \in {"images", "total", "returned"} /\ pageResp.kind = "ok"

\* C9: extract_tables returns exactly one entry per table node of the parsed
\* tree, nested tables included, in document order with numbers 1..n, and
\* the row data of each entry holds one row per tr with at least one td/th
\* cell, in document order, rows without cells being dropped.
C9_OneEntryPerTableRowsWithCells ==
    TablesExtracted =>
        LET nodes == NodesWithTag(soup, "table")
            ts == extracted.tables
        IN /\ Len(ts) = Len(nodes)
           /\ \A k \in 1..Len(ts) :
                LET rows == RowsWithCells(soup, nodes[k])
                IN /\ ts[k].number = k
                   /\ ts[k].html_content[1] = soup[nodes[k]]
                   /\ Len(ts[k].data) = Len(rows)
                   /\ \A r \in 1..Len(ts[k].data) :
                        LET cells == CellsOf(soup, rows[r])
                        IN /\ Len(ts[k].data[r]) = Len(cells)
                           /\ \A c \in 1..Len(cells) :
                                ts[k].data[r][c] = GetText(soup, cells[c])

\* the tables of a page with a nested table and a row without cells have been
\* extracted
C9_Witness ==
    /\ TablesExtracted
    /\ Len(extracted.tables) = 3
    /\ \E t \in 1..Len(soup) :
         /\ soup[t].tag = "table"
         /\ soup[t].parent # 0
         /\ soup[soup[t].parent].tag = "td"
    /\ \E r \in 1..Len(soup) :
         soup[r].tag = "tr" /\ CellsOf(soup, r) = <<>>

-----------------------------------------------------------------------------
(* Claims on downloads and stored addresses *)

\* the (selector pass, position) pairs of the figure elements with an image
\* that has a non-empty src
FigureCandidates(d) ==
    UNION { LET matched == Select(d, 0, figure_selectors[s])
            IN { <<s, i>> : i \in { x \in 1..Len(matched) :
                                      FigureImgUrl(d, matched[x]) # None } } :
            s \in 1..Len(figure_selectors) }

\* the src of the image of a figure candidate
CandidateSrc(d, c) ==
    FigureImgUrl(d, Select(d, 0, figure_selectors[c[1]])[c[2]]).s

\* the img elements extract_images does not pass over, in document order
ImageCandidates(v, d) ==
    SelectSeq(FindAll(d, 0, {"img"}), LAMBDA j : ~ImageSkipped(v, d, j))

\* the download of an address fails in this run
DownloadFails(u) == ~DownloadOk(u, dlFail)

\* C11: when download_image fails for a figure or standalone-image
\* candidate, nothing propagates: the candidate is still in its sequence with
\* its address set and an empty local_path, and the candidates after it are
\* extracted as well (every candidate has its entry in the returned result).
C11_FailedDownloadKeepsCandidate ==
    VisReturnedElements =>
        /\ LET figs == FigureCandidates(soup)
           IN /\ \A c \in figs :
                   LET u == ResolveUrl(paperUrl, CandidateSrc(soup, c))
                   IN \E k \in 1..Len(visRet.figures) :
                        /\ visRet.figures[k].number = c[2]
                        /\ visRet.figures[k].image_url = u
                        /\ DownloadFails(u) => visRet.figures[k].local_path = <<>>
              /\ Len(visRet.figures) >= Cardinality(figs)
        /\ LET cands == ImageCandidates(variant, soup)
           IN /\ Len(visRet.images) = Len(cands)
              /\ \A k \in 1..Len(cands) :
                   LET u == ResolveUrl(paperUrl, soup[cands[k]].attrs["src"])
                   IN /\ visRet.images[k].image_url = u
                      /\ DownloadFails(u) => visRet.images[k].local_path = <<>>

\* a figure whose download failed is followed by a figure and by an image
\* whose downloads succeeded
C11_Witness ==
    /\ VisReturnedElements
    /\ \E k \in 1..Len(visRet.figures) :
         /\ visRet.figures[k].image_url # <<>>
         /\ visRet.figures[k].local_path = <<>>
         /\ \E j \in (k + 1)..Len(visRet.figures) :
              visRet.figures[j].local_path # <<>>
    /\ \E k \in 1..Len(visRet.images) : visRet.images[k].local_path # <<>>

\* the entries of the figures and of the images that carry an address, as
\* pairs of the sequence name and the position
AddressedEntries(e) ==
    { <<"figures", k>> : k \in {x \in 1..Len(e.figures) : e.figures[x].image_url # <<>>} }
    \cup { <<"images", k>> : k \in {x \in 1..Len(e.images) : e.images[x].image_url # <<>>} }

EntryAt(e, c) == IF c[1] = "figures" THEN e.figures[c[2]] ELSE e.images[c[2]]

\* every download of the run succeeded
EveryDownloadSucceeded(e) ==
    \A c \in AddressedEntries(e) : EntryAt(e, c).local_path # <<>>

\* the files written under images/
ImageFiles == { p \in DOMAIN files : StartsWith(p, <<"i","m","a","g","e","s","/">>) }

\* C12: after a run in which every download succeeds, each accepted figure
\* and standalone image has its own file under images/: no two of them share
\* a local_path, and the number of files written is the number of them.
C12_OneFilePerCandidate ==
    (VisReturnedElements /\ EveryDownloadSucceeded(visRet)) =>
        /\ \A c1, c2 \in AddressedEntries(visRet) :
             c1 # c2 => EntryAt(visRet, c1).local_path # EntryAt(visRet, c2).local_path
        /\ Cardinality(ImageFiles) = Cardinality(AddressedEntries(visRet))

IsLetter(ch) == \E n \in 1..Len(UpperChars) : ch \in {UpperChars[n], LowerChars[n]}

\* scheme://host, without a path
IsOrigin(p) ==
    \E c \in 2..(Len(p) - 3) :
      /\ \A j \in 1..(c - 1) : IsLetter(p[j])
      /\ SubSeq(p, c, c + 2) = <<":", "/", "/">>
      /\ \A j \in (c + 3)..Len(p) : p[j] # "/"

\* an absolute address: letters, then a colon
IsAbsoluteUrl(u) ==
    \E k \in 2..Len(u) :
      /\ u[k] = ":"
      /\ \A j \in 1..(k - 1) : IsLetter(u[j])

\* the src the entries of the figures and images were built from: the figure
\* candidates in the order of the passes, the image candidates in document order
IsProtocolRelative(src) == Len(src) >= 2 /\ src[1] = "/" /\ src[2] = "/"
IsRootRelative(src) == Len(src) >= 1 /\ src[1] = "/" /\ ~IsProtocolRelative(src)

\* the stored address is the resolution of src against the page address
ResolvedAgainstBase(stored, src, base) ==
    /\ IsProtocolRelative(src) =>
         /\ IsAbsoluteUrl(stored)
         /\ EndsWith(stored, src)
    /\ IsRootRelative(src) =>
         \E k \in 1..Len(base) :
           /\ stored = SubSeq(base, 1, k) \o src
           /\ IsOrigin(SubSeq(base, 1, k))
           /\ k = Len(base) \/ base[k + 1] = "/"
    /\ IsAbsoluteUrl(src) => stored = src

\* C13: every accepted figure or standalone image with a non-empty
\* image_url carries an absolute address: a protocol-relative or
\* root-relative src is resolved against the page address, an absolute src is
\* unchanged, and no entry keeps a relative address.
C13_StoredAddressesAbsolute ==
    VisReturnedElements =>
        /\ \A c \in AddressedEntries(visRet) :
             IsAbsoluteUrl(EntryAt(visRet, c).image_url)
        /\ \A c \in FigureCandidates(soup) :
             \E k \in 1..Len(visRet.figures) :
               /\ visRet.figures[k].number = c[2]
               /\ ResolvedAgainstBase(visRet.figures[k].image_url,
                                      CandidateSrc(soup, c), paperUrl)
        /\ LET cands == ImageCandidates(variant, soup)
           IN \A k \in 1..Len(cands) :
                k <= Len(visRet.images)
                /\ ResolvedAgainstBase(visRet.images[k].image_url,
                                       soup[cands[k]].attrs["src"], paperUrl)

\* C16: a run against a given page with given responses attaches the
\* ordinals to the same content, and the file stored for an entry holds the
\* content of the candidate that carries the entry's ordinal: the image
\* served at its own address.
C16_StoredFileIsOwnContent ==
    VisReturnedElements =>
        \A c \in AddressedEntries(visRet) :
          LET entry == EntryAt(visRet, c)
          IN entry.local_path # <<>> =>
               /\ entry.local_path \in DOMAIN files
               /\ files[entry.local_path] = [from |-> entry.image_url]

-----------------------------------------------------------------------------
(* Claims on the exclusion filter *)

s_logo == <<"l","o","g","o">>
s_icon_dash == <<"i","c","o","n","-">>

\* the candidate has neither a width nor a height attribute
HasNoSize(d, i) ==
    /\ "width" \notin DOMAIN d[i].attrs
    /\ "height" \notin DOMAIN d[i].attrs

\* the class or the id of an element enclosing i holds an interface indicator
EnclosingMatches(d, i) ==
    \E a \in 1..Len(d) :
      /\ IsAncestor(d, a, i)
      /\ \E k \in interface_indicators :
           \/ \E c \in 1..Len(d[a].cls) : Contains(Lower(d[a].cls[c]), k)
           \/ /\ "id" \in DOMAIN d[a].attrs
              /\ Contains(Lower(d[a].attrs["id"]), k)

\* a keyword of the filter's lists occurs in the address, the alt text or an
\* enclosing element
MatchesKeyword(d, i, url) ==
    \/ \E k \in skip_patterns : Contains(Lower(url), k)
    \/ /\ "alt" \in DOMAIN d[i].attrs
       /\ \E k \in skip_alt_patterns : Contains(Lower(d[i].attrs["alt"]), k)
    \/ EnclosingMatches(d, i)

RejectsLogoAndIcon ==
    (Contains(Lower(fUrl), s_logo) \/ Contains(Lower(fUrl), s_icon_dash))
        => fSkip = TRUE

\* C10 as stated: _should_skip_image returns true for every candidate whose
\* address contains "logo" or "icon-", compared case-insensitively, and false
\* for every candidate with neither width nor height and no keyword in its
\* address, alt text or enclosing elements.
C10_AcceptsEveryPlainCandidate ==
    fPc = "done" =>
        /\ RejectsLogoAndIcon
        /\ (HasNoSize(fDoc, fImg) /\ ~MatchesKeyword(fDoc, fImg, fUrl))
               => fSkip = FALSE

\* C10 amended: _should_skip_image returns true for every candidate whose
\* address contains "logo" or "icon-", compared case-insensitively, and false
\* for every candidate with neither width nor height, no keyword in its
\* address, alt text or enclosing elements, and an address that does not start
\* with "data:".
C10_AcceptsPlainCandidateUnlessInline ==
    fPc = "done" =>
        /\ RejectsLogoAndIcon
        /\ ( /\ HasNoSize(fDoc, fImg)
             /\ ~MatchesKeyword(fDoc, fImg, fUrl)
             /\ ~StartsWith(fUrl, s_data) )
               => fSkip = FALSE

\* the full variant has accepted a candidate without sizes under two divs
C10_Witness ==
    /\ fPc = "done"
    /\ fVariant = "full"
    /\ fImg = 3
    /\ HasNoSize(fDoc, fImg)
    /\ ~MatchesKeyword(fDoc, fImg, fUrl)
    /\ fSkip = FALSE

\* the candidate declares the dimension k as an integer
Declares(d, i, k) == k \in DOMAIN d[i].attrs /\ ParseInt(d[i].attrs[k]).ok

Declared(d, i, k) == ParseInt(d[i].attrs[k]).n

DeclaresBelowFloor(d, i) ==
    \E k \in {"width", "height"} :
        Declares(d, i, k) /\ Declared(d, i, k) < MinImageSide

\* every dimension the candidate has is an integer of at least 50
DeclaresOnlyAtLeastFloor(d, i) ==
    \A k \in {"width", "height"} :
        k \in DOMAIN d[i].attrs =>
            Declares(d, i, k) /\ Declared(d, i, k) >= MinImageSide

\* C19: the filter rejects every candidate that declares a width below 50 or
\* a height below 50, one that declares only one of the two included; a
\* candidate whose declared dimensions are all at least 50 is not rejected
\* by the size rule (it is accepted when no other rule applies to it).
C19_RejectsAnySideBelowFloor ==
    fPc = "done" =>
        /\ DeclaresBelowFloor(fDoc, fImg) => fSkip = TRUE
        /\ ( /\ DeclaresOnlyAtLeastFloor(fDoc, fImg)
             /\ ~MatchesKeyword(fDoc, fImg, fUrl)
             /\ ~StartsWith(fUrl, s_data) )
               => fSkip = FALSE

\* C20: in both variants the filter rejects every image that has an ancestor,
\* at any depth, whose class or id contains an interface-region keyword
\* (header, footer, nav, sidebar, toolbar, ...).
C20_RejectsUnderInterfaceAncestor ==
    fPc = "done" /\ EnclosingMatches(fDoc, fImg) => fSkip = TRUE

-----------------------------------------------------------------------------
(* Claims on the figures *)

\* the nodes a selector pass matches, in document order
PassMatches(d, s) == Select(d, 0, figure_selectors[s])

\* the first img below the node carries a non-empty src
HasImageReference(d, fig) ==
    LET imgs == {j \in (fig + 1)..Len(d) : d[j].tag = "img" /\ Encloses(d, fig, j)}
    IN /\ imgs # {}
       /\ LET first == CHOOSE j \in imgs : \A x \in imgs : j <= x
          IN "src" \in DOMAIN d[first].attrs /\ d[first].attrs["src"] # <<>>

HasCaption(d, fig) == CaptionFrom(d, fig, 1) # <<>>

\* the positions below n, in the pass s, of the matched nodes that have an
\* image reference or a caption, in ascending order
AcceptedBelow(d, s, n) ==
    LET matched == PassMatches(d, s)
    IN Ascending({i \in 1..Len(matched) :
         /\ i < n
         /\ \/ HasImageReference(d, matched[i])
            \/ HasCaption(d, matched[i])})

\* the numbers expected once the passes before s are done and the pass s has
\* dealt with its positions below n
RECURSIVE NumbersUpTo(_, _, _)
NumbersUpTo(d, s, n) ==
    IF s = 0 THEN <<>>
    ELSE IF s > Len(figure_selectors) THEN NumbersUpTo(d, Len(figure_selectors), Len(d) + 1)
    ELSE NumbersUpTo(d, s - 1, Len(d) + 1) \o AcceptedBelow(d, s, n)

NumbersOf(entries) == [k \in 1..Len(entries) |-> entries[k].number]

\* C21: in each selector pass a matched node is appended to figures exactly
\* when it has a non-empty image reference or a non-empty caption; the number
\* of an entry is the 1-based position of its node among the nodes matched by
\* that selector, restarting at 1 in every pass, and it stays what it was
\* when the entry was created, up to the result returned.
C21_FigureNumberIsPositionInPass ==
    /\ visPc = "figures" => NumbersOf(acc) = NumbersUpTo(soup, sel, idx)
    /\ (TablesExtracted \/ visPc = "tables") =>
         LET every == NumbersUpTo(soup, Len(figure_selectors), Len(soup) + 1)
         IN /\ NumbersOf(extracted.figures) = every
            /\ VisReturnedElements => NumbersOf(visRet.figures) = every

\* a pass has passed over its first match, which has neither image nor
\* caption, and accepted its second as number 2, after an earlier pass had
\* accepted a number 1
C21_Witness ==
    /\ VisReturnedElements
    /\ \E k \in 2..Len(visRet.figures) :
         /\ visRet.figures[k].number = 2
         /\ visRet.figures[k - 1].number = 1
         /\ \E s \in 1..Len(figure_selectors) :
              /\ Len(PassMatches(soup, s)) >= 2
              /\ ~HasImageReference(soup, PassMatches(soup, s)[1])
              /\ ~HasCaption(soup, PassMatches(soup, s)[1])
              /\ \E t \in 1..(s - 1) : AcceptedBelow(soup, t, 2) = <<1>>

-----------------------------------------------------------------------------
(* Claims on the standalone images *)

\* an enclosing div or figure has a class that holds "fig" (hence "figure")
\* or "caption", in any case
ClaimedByFigure(d, j) ==
    LET above == Parents(d, j)
    IN \E k \in 1..Len(above) :
         /\ d[above[k]].tag \in {"div", "figure"}
         /\ \E c \in 1..Len(d[above[k]].cls) :
              LET lowered == Lower(d[above[k]].cls[c])
              IN Contains(lowered, s_fig) \/ Contains(lowered, s_caption)

\* the img nodes among the first n img nodes of the page that have a
\* non-empty src, are not claimed by a figure and are not rejected by
\* _should_skip_image, in document order
Standalone(v, d, n) ==
    LET imgs == NodesWithTag(d, "img")
        first == {imgs[x] : x \in {y \in 1..Len(imgs) : y <= n}}
    IN Ascending({j \in first :
         /\ "src" \in DOMAIN d[j].attrs /\ d[j].attrs["src"] # <<>>
         /\ ~ClaimedByFigure(d, j)
         /\ ~ShouldSkipImage(v, d, j, d[j].attrs["src"])})

\* the entries are those of the nodes, in order, numbered from 1
EntriesOfNodes(entries, d, nodes) ==
    /\ Len(entries) = Len(nodes)
    /\ \A k \in 1..Len(nodes) :
         /\ entries[k].number = k
         /\ entries[k].image_url = ResolveUrl(paperUrl, d[nodes[k]].attrs["src"])
         /\ entries[k].alt_text
              = (IF "alt" \in DOMAIN d[nodes[k]].attrs THEN d[nodes[k]].attrs["alt"] ELSE <<>>)

\* the files written by extract_images
StandaloneFiles ==
    { p \in DOMAIN files :
        StartsWith(p, <<"i","m","a","g","e","s","/","i","m","a","g","e","_">>) }

\* C22: extract_images (exclusion enabled) returns exactly the img nodes, in
\* document order, with a non-empty src, without an enclosing div or figure
\* whose class indicates a figure or a caption, and not rejected by
\* _should_skip_image; the k-th entry carries the number k; nothing is
\* downloaded for an img the filter rejects (every file written holds the
\* content of an entry's address).
C22_ImagesAreTheStandaloneNodes ==
    /\ visPc = "images" =>
         /\ EntriesOfNodes(acc, soup, Standalone(variant, soup, idx - 1))
         /\ \A p \in StandaloneFiles :
              \E k \in 1..Len(acc) : files[p] = [from |-> acc[k].image_url]
    /\ VisReturnedElements =>
         /\ EntriesOfNodes(visRet.images, soup, Standalone(variant, soup, Len(soup)))
         /\ \A p \in StandaloneFiles :
              \E k \in 1..Len(visRet.images) :
                files[p] = [from |-> visRet.images[k].image_url]
    /\ visPc \in {"fetch", "figures", "tables"} => StandaloneFiles = {}

\* a logo rejected by the filter comes before the only entry, numbered 1 and
\* downloaded
C22_Witness ==
    /\ VisReturnedElements
    /\ Len(visRet.images) = 1
    /\ visRet.images[1].number = 1
    /\ visRet.images[1].local_path # <<>>
    /\ LET imgs == NodesWithTag(soup, "img")
       IN /\ Len(imgs) = 2
          /\ ShouldSkipImage(variant, soup, imgs[1], soup[imgs[1]].attrs["src"])
          /\ Standalone(variant, soup, 2) = <<imgs[2]>>

-----------------------------------------------------------------------------
(* Claims on the table captions *)

Lowest(S) == IF S = {} THEN 0 ELSE CHOOSE x \in S : \A y \in S : x <= y

\* location 1: the first caption element nested in the table, 0 when absent
NestedCaption(d, t) ==
    Lowest({j \in 1..Len(d) : d[j].tag = "caption" /\ Encloses(d, t, j)})

\* location 2: the sibling immediately before the table when its class holds
\* the token caption or table-caption, 0 when absent
SiblingCaption(d, t) ==
    LET earlier == {j \in 1..(t - 1) : d[j].parent = d[t].parent}
        nearest == IF earlier = {} THEN 0
                   ELSE CHOOSE j \in earlier : \A x \in earlier : x <= j
    IN IF /\ nearest # 0
          /\ \E c \in 1..Len(d[nearest].cls) :
               d[nearest].cls[c] \in {s_caption, s_table_caption}
       THEN nearest ELSE 0

\* location 3: the first div or p below the parent of the table with a class
\* that holds "caption", 0 when absent
ParentCaption(d, t) ==
    Lowest({j \in 1..Len(d) :
        /\ d[j].tag \in {"div", "p"}
        /\ d[t].parent = 0 \/ Encloses(d, d[t].parent, j)
        /\ \E c \in 1..Len(d[j].cls) : Contains(d[j].cls[c], s_caption)})

\* the caption by the first location that is present
CaptionByLocation(d, t) ==
    IF NestedCaption(d, t) # 0 THEN GetText(d, NestedCaption(d, t))
    ELSE IF SiblingCaption(d, t) # 0 THEN GetText(d, SiblingCaption(d, t))
    ELSE IF ParentCaption(d, t) # 0 THEN GetText(d, ParentCaption(d, t))
    ELSE <<>>

\* the page has just been parsed, no step of the extraction has been taken:
\* every run on a page goes through this state, with the tree and the
\* variant it keeps to its end
PageJustParsed == visPc = "figures" /\ sel = 1 /\ idx = 1

\* C23: the caption of a table is taken from the first present of three
\* locations -- a caption element nested in the table, the immediately
\* preceding sibling of class caption or table-caption, a div or p of a
\* caption class below the table's parent -- a later location being used
\* only when every earlier one is absent; the flag-based resolution of
\* visual_extractor and the nested if/else of visual_extractor_simple give
\* the same caption for every table, and it is the caption of the entry.
C23_CaptionFromFirstLocation ==
    /\ PageJustParsed =>
         LET tables == NodesWithTag(soup, "table")
         IN \A k \in 1..Len(tables) :
              LET full == table_caption_full(soup, tables[k])
              IN /\ full = CaptionByLocation(soup, tables[k])
                 /\ table_caption_simple(soup, tables[k]) = full
    /\ VisReturnedElements =>
         LET tables == NodesWithTag(soup, "table")
         IN \A k \in 1..Len(tables) :
              visRet.tables[k].caption = CaptionByLocation(soup, tables[k])

\* the full variant has returned a table captioned by its preceding sibling
\* while a p of class caption stands earlier below the same parent
C23_Witness ==
    /\ VisReturnedElements
    /\ variant = "full"
    /\ \E k \in 1..Len(visRet.tables) :
         LET t == NodesWithTag(soup, "table")[k]
         IN /\ NestedCaption(soup, t) = 0
            /\ SiblingCaption(soup, t) # 0
            /\ ParentCaption(soup, t) \notin {0, SiblingCaption(soup, t)}
            /\ visRet.tables[k].caption = <<"T","C">>

-----------------------------------------------------------------------------
(* Claims on images with an https address *)

\* the src holds "https", in any letter case
HoldsHttps(src) == Contains(Lower(src), <<"h","t","t","p","s">>)

\* the img nodes of the page that carry a src
ImgsWithSrc(d) == {j \in 1..Len(d) : d[j].tag = "img" /\ "src" \in DOMAIN d[j].attrs}

\* every entry comes from a src without "https", and its address starts with
\* https: only by the resolution of a protocol-relative or root-relative src;
\* no entry carries the address of a src with "https"
FromSrcWithoutHttps(entries, d) ==
    entries # <<>> =>
      LET imgs == ImgsWithSrc(d)
      IN /\ \A k \in 1..Len(entries) :
              \E j \in imgs :
                /\ entries[k].image_url = ResolveUrl(paperUrl, d[j].attrs["src"])
                /\ ~HoldsHttps(d[j].attrs["src"])
                /\ StartsWith(entries[k].image_url, s_https_colon) =>
                     IsProtocolRelative(d[j].attrs["src"]) \/ IsRootRelative(d[j].attrs["src"])
         /\ \A j \in imgs :
              \A k \in 1..Len(entries) :
                entries[k].image_url = d[j].attrs["src"] => ~HoldsHttps(d[j].attrs["src"])

\* C24: "https" being a skip pattern, _should_skip_image rejects every image
\* whose src holds "https" in any letter case; no standalone image with an
\* absolute https src is accepted: every entry of images comes from a src
\* without "https", and its stored address begins with https: only through
\* the resolution of a protocol-relative or root-relative src.
C24_NoImageFromHttpsSrc ==
    /\ PageJustParsed =>
         \A j \in ImgsWithSrc(soup) :
           HoldsHttps(soup[j].attrs["src"]) =>
             ShouldSkipImage(variant, soup, j, soup[j].attrs["src"])
    /\ visPc = "images" => FromSrcWithoutHttps(acc, soup)
    /\ visPc = "total" => FromSrcWithoutHttps(extracted.images, soup)
    /\ VisReturnedElements => FromSrcWithoutHttps(visRet.images, soup)

\* a page with an img of src HTTPS://... has been extracted: that img has no
\* entry, and the entry of the protocol-relative img begins with https:
C24_Witness ==
    /\ VisReturnedElements
    /\ \E j \in ImgsWithSrc(soup) :
         /\ HoldsHttps(soup[j].attrs["src"])
         /\ ~ClaimedByFigure(soup, j)
    /\ \E k \in 1..Len(visRet.images) :
         StartsWith(visRet.images[k].image_url, s_https_colon)

-----------------------------------------------------------------------------
(* Claims on figures matched by several selectors *)

\* the selector passes, of the six, that match the node: div.figure, div.fig,
\* div[class*="figure"], div[class*="fig"], figure, div[data-fig]
PassesMatching(d, j) ==
    LET isDiv == d[j].tag = "div"
        token(t) == \E c \in 1..Len(d[j].cls) : d[j].cls[c] = t
        part(t) == \E c \in 1..Len(d[j].cls) : Contains(d[j].cls[c], t)
    IN {s \in 1..6 :
          \/ s = 1 /\ isDiv /\ token(s_figure)
          \/ s = 2 /\ isDiv /\ token(s_fig)
          \/ s = 3 /\ isDiv /\ part(s_figure)
          \/ s = 4 /\ isDiv /\ part(s_fig)
          \/ s = 5 /\ d[j].tag = "figure"
          \/ s = 6 /\ isDiv /\ "data-fig" \in DOMAIN d[j].attrs}

\* the nodes with an image reference or a caption
AcceptableNodes(d) ==
    {j \in 1..Len(d) : HasImageReference(d, j) \/ HasCaption(d, j)}

\* the address stored for the image of a node, '' without an image reference
StoredAddress(d, j) ==
    IF HasImageReference(d, j)
    THEN ResolveUrl(paperUrl, d[Lowest({i \in 1..Len(d) :
                        d[i].tag = "img" /\ Encloses(d, j, i)})].attrs["src"])
    ELSE <<>>

\* the number of passes that match the nodes of S, each node counted as often
\* as it is matched
RECURSIVE TimesMatched(_, _)
TimesMatched(d, S) ==
    IF S = {} THEN 0
    ELSE LET j == CHOOSE x \in S : TRUE
         IN Cardinality(PassesMatching(d, j)) + TimesMatched(d, S \ {j})

\* the nodes that give the same entry as j: same address, same caption
SameEntry(d, j) ==
    {x \in AcceptableNodes(d) :
        /\ StoredAddress(d, x) = StoredAddress(d, j)
        /\ CaptionFrom(d, x, 1) = CaptionFrom(d, j, 1)}

\* the calls of download_image made by extract_figures
FigureDownloads ==
    {n \in 1..Len(downloads) :
        StartsWith(downloads[n].filename, <<"f","i","g","u","r","e","_">>)}

\* C25: extract_figures does not deduplicate across selector passes: a node
\* with an image or a caption that k of the six selectors match has k
\* entries in figures and its image is downloaded k times; len(figures) is
\* the sum over the passes of their accepted matches; a div of class
\* "figure" is matched by div.figure, div[class*="figure"] and
\* div[class*="fig"] and has three entries.
C25_OneEntryPerMatchingPass ==
    VisReturnedElements =>
        LET acceptable == AcceptableNodes(soup)
            \* each acceptable node with its stored address and its caption
            described == { [node |-> j,
                            image |-> HasImageReference(soup, j),
                            address |-> StoredAddress(soup, j),
                            caption |-> CaptionFrom(soup, j, 1)] : j \in acceptable }
            figureDownloads == FigureDownloads
        IN /\ \A e \in described :
                /\ Cardinality({k \in 1..Len(visRet.figures) :
                        /\ visRet.figures[k].image_url = e.address
                        /\ visRet.figures[k].caption = e.caption})
                     = TimesMatched(soup, {x.node : x \in {y \in described :
                                              /\ y.address = e.address
                                              /\ y.caption = e.caption}})
                /\ e.image =>
                     Cardinality({n \in figureDownloads :
                         downloads[n].url = e.address})
                       = TimesMatched(soup, {x.node : x \in {y \in described :
                                                /\ y.image
                                                /\ y.address = e.address}})
           /\ Len(visRet.figures) = TimesMatched(soup, acceptable)
           /\ \A j \in acceptable :
                ( /\ soup[j].tag = "div"
                  /\ soup[j].cls = <<s_figure>>
                  /\ "data-fig" \notin DOMAIN soup[j].attrs )
                => PassesMatching(soup, j) = {1, 3, 4}

\* a page with a single div of class "figure" has given three entries and
\* three downloads of its image
C25_Witness ==
    /\ VisReturnedElements
    /\ \E j \in AcceptableNodes(soup) :
         /\ soup[j].tag = "div" /\ soup[j].cls = <<s_figure>>
         /\ SameEntry(soup, j) = {j}
         /\ Cardinality({k \in 1..Len(visRet.figures) :
                visRet.figures[k].image_url = StoredAddress(soup, j)}) = 3
         /\ Cardinality({n \in FigureDownloads :
                downloads[n].url = StoredAddress(soup, j)}) = 3

====
